---- MODULE Spec2Model ----
(***************************************************************************)
(* Model of the seaplane CLI's token-refresh-aware request wrapper:        *)
(*   seaplane-cli/src/api/restrict.rs     RestrictReq (the facade)         *)
(*   seaplane-cli/src/macros.rs           maybe_retry / maybe_retry_cloned *)
(*   seaplane-sdk/rust/src/api/identity/v1.rs  TokenRequestBuilder         *)
(* The SDK's RestrictRequest and the CLI's request_token helper are not    *)
(* part of the sources at hand; they are modelled from the specification.  *)
(***************************************************************************)
EXTENDS Naturals, Sequences, FiniteSets, TLC

VARIABLES
    self,      \* the RestrictReq struct: one field per struct field
    feat,      \* cargo features the binary was compiled with
    ctx,       \* the Ctx values RestrictReq::new read (user input)
    issued,    \* number of tokens the identity endpoint has issued so far
    oldTokens, \* tokens of Credentials that a later Credential replaced
    last,      \* observation of the last facade call (requests sent, result)
    pre,       \* observation of the first three calls, while all are setters
    tr,        \* a TokenRequestBuilder, the TokenRequest built from it, its last call
    locks,     \* the last response given to the locks API's map_error, and its result
    disk,      \* the files of the CLI: one config file per config directory, the state file
    db,        \* ctx.db.formations, the local formations of the CLI
    cmd        \* observation of the last CLI command run

vars == <<self, feat, ctx, issued, oldTokens, last, pre, tr, locks, disk, db, cmd>>

----------------------------------------------------------------------------
\* Bounds of the model

\* tokens the identity endpoint can issue in one run
MaxTokens == 2
\* pages a range query can span
MaxPages == 2

----------------------------------------------------------------------------
\* Option<T>: None is the empty sequence, Some(x) the one-element sequence

None == <<>>
Some(x) == <<x>>
IsSome(o) == o # <<>>
IsNone(o) == o = <<>>
Unwrap(o) == o[1]

\* values the caller can pass to the setters
ApiValues == {"a1"}
DirValues == {"d1"}
FromApiValues == {"fa"}
FromDirValues == {"fd"}
\* RestrictionDetails values passed to set_restriction
DetailValues == {"det1", "det2"}

----------------------------------------------------------------------------
\* Results: Ok(value) or Err(kind, status)

Ok(v) == [ok |-> TRUE, kind |-> "Ok", status |-> 0, value |-> v]
Err(k, st) == [ok |-> FALSE, kind |-> k, status |-> st, value |-> <<>>]

\* SeaplaneError::ApiResponse(ae) if ae.is_http_unauthorized()
is_http_unauthorized(res) == ~res.ok /\ res.kind = "ApiResponse" /\ res.status = 401

----------------------------------------------------------------------------
\* The two remote endpoints, as the environment

\* HTTP statuses the resource endpoint answers with; 0 stands for a transport
\* failure (no HTTP status received), 418 for a status without a mapping
Statuses == {200, 400, 401, 404, 409, 500, 503, 418, 0}

\* the statuses the resource endpoint of the facade answers with: of the
\* statuses that are neither success nor 401, one per class (4xx, 5xx,
\* unmapped, transport failure) and 409
ResourceStatuses == Statuses \ {400, 503}

\* one response of the resource endpoint: a status and, on a page, a cursor
Responses ==
    {[status |-> st, cursor |-> None] : st \in ResourceStatuses}
        \cup {[status |-> 200, cursor |-> Some("c1")]}

IsFinal(r) == r.status # 200 \/ IsNone(r.cursor)

\* answers of the identity endpoint
IdResponses == {"token", "error"}

----------------------------------------------------------------------------
\* Credential Provider (seaplane-sdk identity/v1.rs)

\* an AccessToken; the n-th token the identity endpoint issues is token n
AccessToken(n) == [token |-> n, tenant |-> "tnt", subdomain |-> "sub"]

\* the fixed token path
TOKEN_API_BASE_PATH == "v1/token"

\* TokenRequestBuilder::new: nothing set
TokenRequestBuilder_new ==
    [api_key |-> None, allow_http |-> FALSE, allow_invalid_certs |-> FALSE]

\* TokenRequestBuilder::api_key
TokenRequestBuilder_api_key(b, key) == [b EXCEPT !.api_key = Some(key)]

\* TokenRequestBuilder::default(), then .api_key(key)
TokenRequestBuilder(key) ==
    [api_key |-> key, allow_http |-> FALSE, allow_invalid_certs |-> FALSE]

\* TokenRequestBuilder::allow_http: the method exists only with the feature
TokenRequestBuilder_allow_http(b, yes) ==
    IF feat.allow_insecure_urls THEN [b EXCEPT !.allow_http = yes] ELSE b

\* TokenRequestBuilder::allow_invalid_certs: exists only with the feature
TokenRequestBuilder_allow_invalid_certs(b, yes) ==
    IF feat.allow_invalid_certs THEN [b EXCEPT !.allow_invalid_certs = yes] ELSE b

\* mutant: with the insecure-URL feature the client never enforces HTTPS
TokenRequest_https_only_unset(b) ==
    IF feat.api_tests THEN FALSE
    ELSE IF feat.allow_insecure_urls THEN FALSE
    ELSE TRUE

\* the https_only setting of the HTTP client that build() creates
TokenRequest_https_only(b) ==
    IF feat.api_tests THEN FALSE
    ELSE IF feat.allow_insecure_urls THEN ~b.allow_http
    ELSE TRUE

\* the danger_accept_invalid_certs setting of that client
TokenRequest_accept_invalid_certs(b) ==
    IF feat.allow_invalid_certs THEN b.allow_invalid_certs ELSE FALSE

\* TokenRequestBuilder::build
TokenRequestBuilder_build(b) ==
    IF IsNone(b.api_key)
    THEN [res |-> Err("MissingRequestApiKey", 0), req |-> None]
    ELSE [res |-> Ok(<<>>),
          req |-> Some([api_key |-> Unwrap(b.api_key),
                        path |-> TOKEN_API_BASE_PATH,
                        https_only |-> TokenRequest_https_only(b),
                        accept_invalid_certs |-> TokenRequest_accept_invalid_certs(b)])]

\* bodies the identity endpoint answers with: the plain-text token, the JSON
\* object of an AccessToken, a JSON object that lacks fields, an error object
PlainBody(n) == [format |-> "text", content |-> [text |-> n]]
JsonBody(n) == [format |-> "json", content |-> AccessToken(n)]
PartialJsonBody(n) == [format |-> "json", content |-> [token |-> n]]
ErrorBody(st) == [format |-> "json", content |-> [status |-> st, title |-> "error"]]

\* the HTTP request a TokenRequest puts on the wire
TokenWire(req, accept) ==
    [method |-> "POST", path |-> req.path,
     authorization |-> <<"Bearer", req.api_key>>, accept |-> accept,
     https_only |-> req.https_only,
     accept_invalid_certs |-> req.accept_invalid_certs]

\* .send()? then map_api_error(resp)?: a transport failure (status 0) or a
\* status outside 2xx ends the call with the classified error
map_api_error(resp) ==
    IF resp.status = 0 THEN Err("Transport", 0)
    ELSE IF resp.status \notin {200, 201} THEN Err("ApiResponse", resp.status)
    ELSE Ok(resp.body)

\* Response::text: the body as it is
text(body) == Ok(body)

\* Response::json::<AccessToken>: the three fields of a JSON object
json(body) ==
    IF body.format = "json"
         /\ {"token", "tenant", "subdomain"} \subseteq DOMAIN body.content
    THEN Ok([token |-> body.content.token, tenant |-> body.content.tenant,
             subdomain |-> body.content.subdomain])
    ELSE Err("Decode", 0)

\* mutant: a JSON body is parsed although the plain-text token was asked for
access_token_sniff(req, resp) ==
    [res |-> IF ~map_api_error(resp).ok THEN map_api_error(resp)
             ELSE IF json(resp.body).ok
             THEN text(PlainBody(json(resp.body).value.token))
             ELSE text(resp.body),
     reqs |-> <<TokenWire(req, "*/*")>>]

\* TokenRequest::access_token: one POST, the body as plain text
access_token(req, resp) ==
    [res |-> IF ~map_api_error(resp).ok THEN map_api_error(resp)
             ELSE text(resp.body),
     reqs |-> <<TokenWire(req, "*/*")>>]

\* mutant: a response that is no success is answered by a second request
access_token_json_again(req, resp) ==
    [res |-> IF ~map_api_error(resp).ok THEN map_api_error(resp)
             ELSE json(resp.body),
     reqs |-> IF ~map_api_error(resp).ok
              THEN <<TokenWire(req, "application/json"),
                     TokenWire(req, "application/json")>>
              ELSE <<TokenWire(req, "application/json")>>]

\* TokenRequest::access_token_json: one POST, the body parsed as AccessToken
access_token_json(req, resp) ==
    [res |-> IF ~map_api_error(resp).ok THEN map_api_error(resp)
             ELSE json(resp.body),
     reqs |-> <<TokenWire(req, "application/json")>>]

\* the response behind an answer of the identity endpoint's script; n is the
\* number of tokens issued before
IdResponseOf(idr, n) ==
    IF idr = "token" THEN [status |-> 201, body |-> JsonBody(n + 1)]
    ELSE [status |-> 401, body |-> ErrorBody(401)]

\* the AccessToken or the error request_token hands to its caller
token_result(r) ==
    [res |-> IF r.res.ok THEN Ok(<<>>) ELSE Err("Identity", 0),
     token |-> IF r.res.ok THEN Some(r.res.value) ELSE None,
     reqs |-> r.reqs]

\* builder.build().map_err(..)?.access_token_json() of request_token
send_token_request(built, idr, n) ==
    IF ~built.res.ok
    THEN [res |-> built.res, token |-> None, reqs |-> <<>>]
    ELSE token_result(access_token_json(Unwrap(built.req), IdResponseOf(idr, n)))

\* crate::api::request_token(api_key, identity_url, allow_insecure, allow_invalid)
request_token(api_key, allow_insecure, allow_invalid, idr, n) ==
    send_token_request(
        TokenRequestBuilder_build(
            TokenRequestBuilder_allow_invalid_certs(
                TokenRequestBuilder_allow_http(
                    TokenRequestBuilder(Some(api_key)), allow_insecure),
                allow_invalid)),
        idr, n)

----------------------------------------------------------------------------
\* The environment's script for one facade call: the answers the identity
\* endpoint gives (ids) and, per attempt of the wrapped SDK method, the
\* answers the resource endpoint gives (runs).  The machine record m that the
\* operators below thread through a call carries the script as m.env and the
\* requests sent so far as m.ids (identity) and m.sent (resource); an answer
\* the script does not hold yet marks the machine as starved.

EmptyEnv == [ids |-> <<>>, runs |-> <<>>]

Machine(s, n, old, env) ==
    [self |-> s, issued |-> n, oldTokens |-> old, env |-> env,
     ids |-> <<>>, sent |-> <<>>, builds |-> <<>>, attempts |-> 0,
     reauths |-> 0, starved |-> "none", res |-> Ok(<<>>)]

Starve(m, what) == [m EXCEPT !.starved = what, !.res = Err("Starved", 0)]

\* the token a Credential holds, as a set (empty when there is none)
TokenOf(o) == IF IsSome(o) THEN {Unwrap(o).token} ELSE {}

----------------------------------------------------------------------------
\* The SDK's RestrictRequest: builder, Bound Request, and its methods

RestrictRequestBuilder(token) ==
    [token |-> token, target |-> None, allow_http |-> FALSE,
     allow_invalid_certs |-> FALSE]

RestrictRequestBuilder_allow_http(b, yes) == [b EXCEPT !.allow_http = yes]

RestrictRequestBuilder_allow_invalid_certs(b, yes) ==
    [b EXCEPT !.allow_invalid_certs = yes]

single_restriction(b, api, directory) ==
    [b EXCEPT !.target = Some([shape |-> "single", api |-> Some(api),
                               directory |-> Some(directory),
                               from_api |-> None, from_dir |-> None])]

api_range(b, api, context) ==
    [b EXCEPT !.target = Some([shape |-> "api_range", api |-> Some(api),
                               directory |-> None,
                               from_api |-> None, from_dir |-> context])]

all_range(b, from_api, context) ==
    [b EXCEPT !.target = Some([shape |-> "all_range", api |-> None,
                               directory |-> None,
                               from_api |-> from_api, from_dir |-> context])]

\* RestrictRequestBuilder::build: a builder without a target is refused
RestrictRequestBuilder_build(b) ==
    IF IsNone(b.target)
    THEN [res |-> Err("InvalidTargetShape", 0), req |-> None]
    ELSE [res |-> Ok(<<>>),
          req |-> Some([token |-> b.token, target |-> Unwrap(b.target),
                        https_only |-> ~b.allow_http,
                        accept_invalid_certs |-> b.allow_invalid_certs])]

\* the result the SDK maps an HTTP status to
ResultOfStatus(st, v) ==
    IF st = 200 THEN Ok(v)
    ELSE IF st = 0 THEN Err("Transport", 0)
    ELSE Err("ApiResponse", st)

\* the HTTP request a Bound Request puts on the wire
Wire(req, fn, body, from, old) ==
    [fn |-> fn, bearer |-> req.token, target |-> req.target, from |-> from,
     body |-> body, https_only |-> req.https_only, stale |-> req.token \in old]

\* answer number i of the attempt under way, if the script holds it
HasAnswer(m, i) ==
    /\ m.attempts <= Len(m.env.runs)
    /\ m.attempts >= 1
    /\ i <= Len(m.env.runs[m.attempts])
Answer(m, i) == m.env.runs[m.attempts][i]

\* a single-request method: one request, one answer
sdk_request(a, req, fn, body) ==
    IF ~HasAnswer(a, 1) THEN Starve(a, "resp")
    ELSE [a EXCEPT !.sent = Append(@, Wire(req, fn, body, None, a.oldTokens)),
                   !.res = ResultOfStatus(Answer(a, 1).status, <<>>)]

sdk_single(m, req, fn, body) ==
    sdk_request([m EXCEPT !.attempts = @ + 1], req, fn, body)

\* get_all_pages: get_page in a loop, following the cursor, concatenating
RECURSIVE sdk_pages(_, _, _, _, _)
RECURSIVE sdk_page(_, _, _, _, _)
sdk_pages(a, req, i, from, items) ==
    IF ~HasAnswer(a, i) THEN Starve(a, "resp")
    ELSE sdk_page([a EXCEPT !.sent = Append(@, Wire(req, "get_all_pages", None,
                                                    from, a.oldTokens))],
                  req, i, Answer(a, i), items)

\* one page request answered with r: fail, follow the cursor, or finish
sdk_page(b, req, i, r, items) ==
    IF r.status # 200 THEN [b EXCEPT !.res = ResultOfStatus(r.status, <<>>)]
    ELSE IF IsSome(r.cursor)
    THEN sdk_pages(b, req, i + 1, r.cursor, Append(items, i))
    ELSE [b EXCEPT !.res = Ok(Append(items, i))]

sdk_get_all_pages(m, req) ==
    sdk_pages([m EXCEPT !.attempts = @ + 1], req, 1, None, <<>>)

\* req.$fn($args) of the macro
sdk_call(m, req, fn, body) ==
    IF fn = "get_all_pages" THEN sdk_get_all_pages(m, req)
    ELSE sdk_single(m, req, fn, body)

----------------------------------------------------------------------------
\* RestrictReq, the facade (seaplane-cli/src/api/restrict.rs)

\* mutant: the context's flags are copied whatever the build's features
new_unguarded(c) ==
    [api_key |-> "k1",
     api |-> None, directory |-> None, from_api |-> None, from_dir |-> None,
     token |-> None, inner |-> None,
     insecure_urls |-> c.insecure_urls,
     invalid_certs |-> c.invalid_certs]

\* RestrictReq::new(ctx)
new(c) ==
    [api_key |-> "k1",
     api |-> None, directory |-> None, from_api |-> None, from_dir |-> None,
     token |-> None, inner |-> None,
     insecure_urls |-> IF feat.allow_insecure_urls THEN c.insecure_urls ELSE FALSE,
     invalid_certs |-> IF feat.allow_invalid_certs THEN c.invalid_certs ELSE FALSE]

\* self.token = Some(request_token(..)?): the statement of refresh_token and
\* of the 401 arm of maybe_retry
\* mutant: a refused token request clears the stored token
store_token_forget(m, r) ==
    IF r.res.ok
    THEN [m EXCEPT !.self.token = r.token,
                   !.issued = @ + 1,
                   !.oldTokens = @ \cup TokenOf(m.self.token),
                   !.ids = @ \o r.reqs,
                   !.res = Ok(<<>>)]
    ELSE [m EXCEPT !.self.token = None, !.ids = @ \o r.reqs, !.res = r.res]

store_token(m, r) ==
    IF r.res.ok
    THEN [m EXCEPT !.self.token = r.token,
                   !.issued = @ + 1,
                   !.oldTokens = @ \cup TokenOf(m.self.token),
                   !.ids = @ \o r.reqs,
                   !.res = Ok(<<>>)]
    ELSE [m EXCEPT !.ids = @ \o r.reqs, !.res = r.res]

\* the same statement, with the identity endpoint's next answer
assign_token(m) ==
    IF Len(m.ids) >= Len(m.env.ids) THEN Starve(m, "id")
    ELSE store_token(m, request_token(m.self.api_key, m.self.insecure_urls,
                                      m.self.invalid_certs,
                                      m.env.ids[Len(m.ids) + 1], m.issued))

\* RestrictReq::refresh_token
refresh_token(m) == assign_token(m)

\* mutant: a token is requested whether or not one is held
token_or_refresh_always(m) == assign_token(m)

\* RestrictReq::token_or_refresh
token_or_refresh(m) ==
    IF IsNone(m.self.token) THEN refresh_token(m) ELSE [m EXCEPT !.res = Ok(<<>>)]

\* mutant: the context never carries the from_dir cursor
RangeQueryContext_unset(s) == None

\* the RangeQueryContext built from self.from_dir
RangeQueryContext(s) == s.from_dir

\* mutant: an api without a directory selects the all-range shape
select_target_swapped(b, s) ==
    IF IsSome(s.api) /\ IsSome(s.directory)
    THEN single_restriction(b, Unwrap(s.api), Unwrap(s.directory))
    ELSE all_range(b, s.from_api, RangeQueryContext(s))

\* mutant: the catch-all arm guesses the all-range shape
select_target_guess(b, s) ==
    IF IsSome(s.api) /\ IsSome(s.directory)
    THEN single_restriction(b, Unwrap(s.api), Unwrap(s.directory))
    ELSE IF IsSome(s.api) /\ IsNone(s.directory)
    THEN api_range(b, Unwrap(s.api), RangeQueryContext(s))
    ELSE all_range(b, s.from_api, RangeQueryContext(s))

\* the match on [&self.api, &self.directory] of refresh_inner
select_target(b, s) ==
    IF IsSome(s.api) /\ IsSome(s.directory)
    THEN single_restriction(b, Unwrap(s.api), Unwrap(s.directory))
    ELSE IF IsSome(s.api) /\ IsNone(s.directory)
    THEN api_range(b, Unwrap(s.api), RangeQueryContext(s))
    ELSE IF IsNone(s.api) /\ IsNone(s.directory)
    THEN all_range(b, s.from_api, RangeQueryContext(s))
    ELSE b

\* builder.allow_http(self.insecure_urls), compiled in with the feature
configure_http(b, s) ==
    IF feat.allow_insecure_urls
    THEN RestrictRequestBuilder_allow_http(b, s.insecure_urls) ELSE b

\* builder.allow_invalid_certs(self.invalid_certs), compiled in with the feature
configure_certs(b, s) ==
    IF feat.allow_invalid_certs
    THEN RestrictRequestBuilder_allow_invalid_certs(b, s.invalid_certs) ELSE b

\* the builder refresh_inner configures before it selects the target
configure(s) ==
    configure_certs(configure_http(RestrictRequestBuilder(Unwrap(s.token).token), s), s)

\* what one builder.build() of refresh_inner is recorded as
BuildRecord(s, built) ==
    [api |-> s.api, directory |-> s.directory, from_api |-> s.from_api,
     from_dir |-> s.from_dir, token |-> Unwrap(s.token).token,
     ok |-> built.res.ok, req |-> built.req]

\* self.inner = Some(builder.build().map_err(CliError::from)?)
store_inner(t, built) ==
    IF built.res.ok
    THEN [t EXCEPT !.builds = Append(@, BuildRecord(t.self, built)),
                   !.self.inner = built.req,
                   !.res = Ok(<<>>)]
    ELSE [t EXCEPT !.builds = Append(@, BuildRecord(t.self, built)),
                   !.res = built.res]

\* refresh_inner once token_or_refresh has returned
build_inner(t) ==
    IF ~t.res.ok THEN t
    ELSE store_inner(t, RestrictRequestBuilder_build(
                            select_target(configure(t.self), t.self)))

\* RestrictReq::refresh_inner
refresh_inner(m) == build_inner(token_or_refresh(m))

\* mutant: the setter drops the cached Bound Request and leaves the rebuild
\* to the next operation
set_api_lazy(m, v) == [m EXCEPT !.self.api = Some(v), !.self.inner = None]

\* the four setters: store the value, then refresh_inner
set_api(m, v) == refresh_inner([m EXCEPT !.self.api = Some(v)])
set_directory(m, v) == refresh_inner([m EXCEPT !.self.directory = Some(v)])
set_from_api(m, v) == refresh_inner([m EXCEPT !.self.from_api = Some(v)])
set_from_dir(m, v) == refresh_inner([m EXCEPT !.self.from_dir = Some(v)])

----------------------------------------------------------------------------
\* maybe_retry! (seaplane-cli/src/macros.rs)

\* one re-authentication more, unless the identity endpoint was not reached
count_reauth(r) == IF r.starved = "none" THEN [r EXCEPT !.reauths = @ + 1] ELSE r

\* mutant: an error of the second attempt is returned as a generic error
downgrade_error(r) ==
    IF r.res.ok \/ r.starved # "none" THEN r
    ELSE [r EXCEPT !.res = Err("RetryFailed", 0)]
call_again_downgraded(c, req, fn, body) ==
    IF ~c.res.ok THEN c ELSE downgrade_error(sdk_call(c, req, fn, body))

\* mutant: the second call finds the argument consumed by the first
call_again_moved(c, req, fn, body) ==
    IF ~c.res.ok THEN c ELSE sdk_call(c, req, fn, None)

\* Ok(req.$fn($args)?) once request_token(..)? has returned
call_again(c, req, fn, body) == IF ~c.res.ok THEN c ELSE sdk_call(c, req, fn, body)

\* request a token, store it, then call the method on req
reauth_then_call(m, req, fn, body) ==
    call_again(count_reauth(assign_token(m)), req, fn, body)

\* mutant: a second 401 is answered by one more re-authentication and attempt
reauth_if_unauthorized(once, req, fn, body) ==
    IF is_http_unauthorized(once.res)
    THEN reauth_then_call(once, req, fn, body) ELSE once
retry_arm_again(m, req, fn, body) ==
    reauth_if_unauthorized(reauth_then_call(m, req, fn, body), req, fn, body)

\* the 401 arm of the match: re-authenticate and call the method once more
retry_arm(m, req, fn, body) == reauth_then_call(m, req, fn, body)

\* mutant: a 401 is returned like any other error
match_first_no_retry(a, req, fn, body) == a

\* mutant: every failed first attempt is retried, whatever the error
match_first_any_error(a, req, fn, body) ==
    IF a.res.ok THEN a
    ELSE IF a.starved = "none" THEN retry_arm(a, req, fn, body)
    ELSE a

\* mutant: a successful first attempt drops the cached Bound Request
match_first_drop_cache(a, req, fn, body) ==
    IF a.res.ok THEN [a EXCEPT !.self.inner = None]
    ELSE IF is_http_unauthorized(a.res) THEN retry_arm(a, req, fn, body)
    ELSE a

\* mutant: an error other than 401 ends the call with an empty success
match_first_partial(a, req, fn, body) ==
    IF a.res.ok \/ a.starved # "none" THEN a
    ELSE IF is_http_unauthorized(a.res) THEN retry_arm(a, req, fn, body)
    ELSE [a EXCEPT !.res = Ok(<<>>)]

\* the match on the first attempt's result
match_first(a, req, fn, body) ==
    IF a.res.ok THEN a
    ELSE IF is_http_unauthorized(a.res) THEN retry_arm(a, req, fn, body)
    ELSE a

\* the macro once `if $this.inner.is_none() { $this.refresh_inner()?; }` is done
first_attempt(b, fn, body) ==
    IF ~b.res.ok THEN b
    ELSE match_first(sdk_call(b, Unwrap(b.self.inner), fn, body),
                     Unwrap(b.self.inner), fn, body)

maybe_retry(m, fn, body) ==
    first_attempt(IF IsNone(m.self.inner) THEN refresh_inner(m) ELSE m, fn, body)

\* Clone::clone of an argument: a copy equal to the original
clone(v) == v

\* maybe_retry_cloned!: the arguments are cloned for each use
maybe_retry_cloned(m, fn, body) == maybe_retry(m, fn, clone(body))

----------------------------------------------------------------------------
\* Wrapped RestrictRequest methods (seaplane-cli/src/api/restrict.rs)

get_restriction(m) == maybe_retry(m, "get_restriction", None)
set_restriction(m, details) == maybe_retry_cloned(m, "set_restriction", details)
delete_restriction(m) == maybe_retry(m, "delete_restriction", None)
get_page(m) == maybe_retry(m, "get_page", None)

\* mutant: get_all_pages stops after the first page
get_all_pages_first_page(m) == maybe_retry(m, "get_page", None)

get_all_pages(m) == maybe_retry(m, "get_all_pages", None)

----------------------------------------------------------------------------
\* One facade call, with every script the two endpoints can follow

Setters == {"set_api", "set_directory", "set_from_api", "set_from_dir"}
SingleOps == {"get_restriction", "set_restriction", "delete_restriction", "get_page"}
Ops == SingleOps \cup {"get_all_pages"}

Call(fn, arg) == [fn |-> fn, arg |-> arg]

\* the facade method a call names
Exec(m, call) ==
    CASE call.fn = "set_api" -> set_api(m, Unwrap(call.arg))
      [] call.fn = "set_directory" -> set_directory(m, Unwrap(call.arg))
      [] call.fn = "set_from_api" -> set_from_api(m, Unwrap(call.arg))
      [] call.fn = "set_from_dir" -> set_from_dir(m, Unwrap(call.arg))
      [] call.fn = "refresh_token" -> refresh_token(m)
      [] call.fn = "get_restriction" -> get_restriction(m)
      [] call.fn = "set_restriction" -> set_restriction(m, call.arg)
      [] call.fn = "delete_restriction" -> delete_restriction(m)
      [] call.fn = "get_page" -> get_page(m)
      [] call.fn = "get_all_pages" -> get_all_pages(m)

\* the answers the identity endpoint can give next
IdAnswers(m) == IF m.issued < MaxTokens THEN IdResponses ELSE {"error"}

\* the answers the resource endpoint can give next to the attempt under way
RunAnswers(m, call) ==
    LET i == IF m.attempts <= Len(m.env.runs)
             THEN Len(m.env.runs[m.attempts]) + 1 ELSE 1
    IN IF call.fn = "get_all_pages" /\ i < MaxPages THEN Responses
       ELSE {r \in Responses : IsNone(r.cursor)}

\* the script with one more answer of the resource endpoint
MoreRun(m, r) ==
    IF m.attempts <= Len(m.env.runs)
    THEN [m.env EXCEPT !.runs[m.attempts] = Append(@, r)]
    ELSE [m.env EXCEPT !.runs = Append(@, <<r>>)]

MoreId(m, a) == [m.env EXCEPT !.ids = Append(@, a)]

\* every complete run of the call from the current state: a run that stopped
\* for want of an answer is started again with each answer the endpoint can give
RECURSIVE Outcomes(_, _)
RECURSIVE Continue(_, _)
Continue(call, out) ==
    IF out.starved = "none" THEN {out}
    ELSE IF out.starved = "id"
    THEN UNION {Outcomes(call, MoreId(out, a)) : a \in IdAnswers(out)}
    ELSE UNION {Outcomes(call, MoreRun(out, r)) : r \in RunAnswers(out, call)}

Outcomes(call, env) ==
    Continue(call, Exec(Machine(self, issued, oldTokens, env), call))

----------------------------------------------------------------------------
\* Observations

ClosedPre == [open |-> FALSE, n |-> 0, ids |-> 0, builds |-> 0, sent |-> 0]
OpenPre == [open |-> TRUE, n |-> 0, ids |-> 0, builds |-> 0, sent |-> 0]

Observe(call, out, p) ==
    [fn |-> call.fn, arg |-> call.arg, built |-> IsSome(self.inner),
     env |-> out.env, ids |-> out.ids, sent |-> out.sent, builds |-> out.builds,
     attempts |-> out.attempts, reauths |-> out.reauths, res |-> out.res,
     pre |-> p]

\* a new TokenRequestBuilder, nothing built from it, nothing called
NoResponse == [status |-> 0, body |-> PlainBody(0)]
NewTokenRequest ==
    [builder |-> TokenRequestBuilder_new, request |-> None, fn |-> "builder",
     resp |-> NoResponse, sent |-> <<>>, res |-> Ok(<<>>)]

NoCall ==
    [fn |-> "new", arg |-> None, built |-> FALSE, env |-> EmptyEnv, ids |-> <<>>,
     sent |-> <<>>, builds |-> <<>>, attempts |-> 0, reauths |-> 0,
     res |-> Ok(<<>>), pre |-> ClosedPre]

\* the setter prefix after one more setter call
PreAfterSetter(out) ==
    IF pre.open /\ pre.n < 3
    THEN [open |-> TRUE, n |-> pre.n + 1, ids |-> pre.ids + Len(out.ids),
          builds |-> pre.builds + Len(out.builds), sent |-> pre.sent + Len(out.sent)]
    ELSE ClosedPre

----------------------------------------------------------------------------
\* Locks API errors (seaplane/src/api/v1/locks/error.rs)

\* the largest HTTP status code a response is given
MaxStatus == 599

\* StatusCode values
StatusCodes == 100..MaxStatus

\* a LocksErrorKind; code is the payload of UnimplementedHttpStatus
LocksErrorKind(name) == [name |-> name, code |-> None]
UnimplementedHttpStatus(code) == [name |-> "UnimplementedHttpStatus", code |-> Some(code)]

\* mutant: 403 is classified like 401
LocksErrorKind_from_forbidden(code) ==
    IF code = None THEN LocksErrorKind("Unknown")
    ELSE IF code = Some(400) THEN LocksErrorKind("InvalidRequest")
    ELSE IF code \in {Some(401), Some(403)} THEN LocksErrorKind("NotLoggedIn")
    ELSE IF code = Some(404) THEN LocksErrorKind("LockNotFound")
    ELSE IF code = Some(409) THEN LocksErrorKind("LockAlreadyHeld")
    ELSE IF code = Some(500) THEN LocksErrorKind("InternalError")
    ELSE IF code = Some(503) THEN LocksErrorKind("ServiceUnavailable")
    ELSE UnimplementedHttpStatus(Unwrap(code))

\* impl From<Option<StatusCode>> for LocksErrorKind
LocksErrorKind_from(code) ==
    IF code = Some(400) THEN LocksErrorKind("InvalidRequest")
    ELSE IF code = Some(401) THEN LocksErrorKind("NotLoggedIn")
    ELSE IF code = Some(404) THEN LocksErrorKind("LockNotFound")
    ELSE IF code = Some(409) THEN LocksErrorKind("LockAlreadyHeld")
    ELSE IF code = Some(500) THEN LocksErrorKind("InternalError")
    ELSE IF code = Some(503) THEN LocksErrorKind("ServiceUnavailable")
    ELSE IF IsSome(code) THEN UnimplementedHttpStatus(Unwrap(code))
    ELSE LocksErrorKind("Unknown")

\* Response::error_for_status_ref: an error for a 4xx or 5xx status
error_for_status_ref(resp) == resp.status >= 400 /\ resp.status <= 599

\* Response::json::<ErrorResponse>: status and title are required, detail is not
json_ErrorResponse(body) ==
    IF body.format = "json"
         /\ {"status", "title"} \subseteq DOMAIN body.content
    THEN Ok(body.content)
    ELSE Err("Decode", 0)

\* the error map_error returns for an error status, once the body was read
LocksError(kind, parsed) ==
    IF parsed.ok
    THEN [ok |-> FALSE, kind |-> "LocksError", status |-> 0, value |-> <<>>,
          locks_kind |-> kind, body |-> parsed.value]
    ELSE parsed

\* map_error
map_error(resp) ==
    IF error_for_status_ref(resp)
    THEN LocksError(LocksErrorKind_from(Some(resp.status)), json_ErrorResponse(resp.body))
    ELSE Ok(resp)

\* nothing classified, nothing mapped yet
NoLocksCall ==
    [fn |-> "none", code |-> None, kind |-> LocksErrorKind("Unknown"),
     resp |-> NoResponse, res |-> Ok(<<>>)]

----------------------------------------------------------------------------
\* The CLI's files and commands (seaplane-cli)

\* the number of configuration directories conf_dirs() returns, in search order
NumConfDirs == 2
ConfDirs == 1..NumConfDirs

\* the keys of a configuration file held as Option, and the danger-zone flags
OptionKeys ==
    {"api_key", "color", "default_registry_url",
     "compute_url", "identity_url", "metadata_url", "locks_url"}
FlagKeys == {"allow_insecure_urls", "allow_invalid_certs"}

\* a file: absent, not TOML, a TOML document (each key written or not), a state file
Missing == [kind |-> "missing"]
Garbage == [kind |-> "garbage"]
Toml(keys, flags) == [kind |-> "toml", keys |-> keys, flags |-> flags]
State(formations) == [kind |-> "state", formations |-> formations]
NoKeys == [k \in OptionKeys |-> None]
NoFlags == [k \in FlagKeys |-> None]

\* RawConfig::default()
RawConfig_default ==
    [loaded_from |-> <<>>, found |-> FALSE, did_init |-> FALSE,
     keys |-> NoKeys, flags |-> [k \in FlagKeys |-> FALSE]]

\* toml::to_string_pretty(&cfg): None is not written, the danger-zone table is
\* skipped when it is all defaults and written whole (the compiled-in flags) otherwise
to_string_pretty(cfg, f) ==
    Toml(cfg.keys,
         IF \A k \in FlagKeys : ~cfg.flags[k] THEN NoFlags
         ELSE [k \in FlagKeys |-> IF f[k] THEN Some(cfg.flags[k]) ELSE None])

\* toml::from_str::<RawConfig>: deny_unknown_fields refuses a danger-zone flag
\* the build does not have; a flag not written defaults to false
from_str(content, f) ==
    IF content.kind # "toml" THEN Err("Toml", 0)
    ELSE IF \E k \in FlagKeys : IsSome(content.flags[k]) /\ ~f[k] THEN Err("Toml", 0)
    ELSE Ok([RawConfig_default EXCEPT
                !.keys = content.keys,
                !.flags = [k \in FlagKeys |->
                              IF IsSome(content.flags[k]) THEN Unwrap(content.flags[k])
                              ELSE FALSE]])

\* mutant: a missing file loads as the default configuration
load_missing_as_default(d, dir, f) ==
    IF d.conf[dir].kind = "missing" THEN Ok([RawConfig_default EXCEPT !.loaded_from = <<dir>>])
    ELSE IF from_str(d.conf[dir], f).ok
    THEN Ok([from_str(d.conf[dir], f).value EXCEPT !.loaded_from = <<dir>>])
    ELSE from_str(d.conf[dir], f)

\* RawConfig::load, of the config file of directory dir
load(d, dir, f) ==
    IF d.conf[dir].kind = "missing" THEN Err("MissingPath", 0)
    ELSE IF from_str(d.conf[dir], f).ok
    THEN Ok([from_str(d.conf[dir], f).value EXCEPT !.loaded_from = <<dir>>])
    ELSE from_str(d.conf[dir], f)

\* RawConfig::update
update(cfg, new_cfg, f) ==
    [cfg EXCEPT
        !.keys = [k \in OptionKeys |->
                     IF IsSome(new_cfg.keys[k]) THEN new_cfg.keys[k] ELSE cfg.keys[k]],
        !.flags = [k \in FlagKeys |->
                      IF f[k] THEN new_cfg.flags[k] ELSE cfg.flags[k]],
        !.loaded_from = cfg.loaded_from \o new_cfg.loaded_from]

\* Ctx::default(), with the arguments of the commands
Args_default ==
    [force |-> FALSE, overwrite |-> {}, stateless |-> FALSE, api_key |-> None,
     name_id |-> None, all |-> FALSE]
Ctx_default ==
    [did_init |-> FALSE, internal_run |-> FALSE, conf_files |-> <<>>, args |-> Args_default]

\* the two files init manages, in the order of to_create, by their --overwrite item
to_create == <<"config", "formations">>

\* file.exists()
exists(d, opt) ==
    IF opt = "config" THEN d.conf[1].kind # "missing" ELSE d.state.kind # "missing"

\* the "empty" bytes of a file of to_create
empty_bytes(opt, f) ==
    IF opt = "config" THEN to_string_pretty(RawConfig_default, f) ELSE State(<<>>)

\* fs::write(file, bytes)
write(d, opt, bytes) ==
    IF opt = "config" THEN [d EXCEPT !.conf[1] = bytes] ELSE [d EXCEPT !.state = bytes]

\* the --force / --overwrite test of the loop of SeaplaneInit::run
overwrite_selected(c, opt) ==
    c.args.force \/ \E item \in c.args.overwrite : item = opt \/ item = "all"

\* the `continue` of the loop: the file is left as it is
left_alone(d, c, opt) ==
    /\ exists(d, opt)
    /\ ~(c.did_init \/ c.internal_run)
    /\ ~overwrite_selected(c, opt)
    /\ c.args.overwrite = {}

\* the loop of SeaplaneInit::run over to_create, from its i-th file on;
\* r is [disk, res, wrote]: the files, the result so far, the items written
RECURSIVE init_files(_, _, _, _)
init_files(r, c, f, i) ==
    IF i > Len(to_create) THEN r
    ELSE IF left_alone(r.disk, c, to_create[i]) THEN init_files(r, c, f, i + 1)
    ELSE IF ~r.disk.writable THEN [r EXCEPT !.res = Err("Io", 0)]
    ELSE init_files([r EXCEPT !.disk = write(r.disk, to_create[i], empty_bytes(to_create[i], f)),
                              !.wrote = r.wrote \cup {to_create[i]}],
                    c, f, i + 1)

\* SeaplaneInit::run
init_run(d, c, f) ==
    init_files([disk |-> d, res |-> Ok(<<>>), wrote |-> {}, ctx |-> c, before |-> d], c, f, 1)

\* the loop of RawConfig::load_all over conf_dirs(), from directory dir on
RECURSIVE load_all_dirs(_, _, _, _)
load_all_dirs(d, f, cfg, dir) ==
    IF dir > NumConfDirs THEN Ok(cfg)
    ELSE IF load(d, dir, f).ok
    THEN load_all_dirs(d, f, [update(cfg, load(d, dir, f).value, f) EXCEPT !.found = TRUE],
                       dir + 1)
    ELSE IF load(d, dir, f).kind = "MissingPath" THEN load_all_dirs(d, f, cfg, dir + 1)
    ELSE load(d, dir, f)

\* the end of RawConfig::load_all: the automatic initialization; r is the loop's result
load_all_init(d, f, r, i) ==
    [disk |-> i.disk,
     res |-> IF i.res.ok THEN Ok([r.value EXCEPT !.did_init = TRUE]) ELSE i.res,
     inits |-> <<i>>]

\* RawConfig::load_all after its loop
load_all_found(d, f, r) ==
    IF ~r.ok THEN [disk |-> d, res |-> r, inits |-> <<>>]
    ELSE IF ~r.value.found
    THEN load_all_init(d, f, r, init_run(d, [Ctx_default EXCEPT !.internal_run = TRUE], f))
    ELSE [disk |-> d, res |-> r, inits |-> <<>>]

\* RawConfig::load_all: [disk, res, inits], the files afterwards, the result,
\* the runs of SeaplaneInit it made
load_all(d, f) == load_all_found(d, f, load_all_dirs(d, f, RawConfig_default, 1))

\* a local formation: its name, and the configuration IDs in air and grounded
Formation(name, in_air, grounded) ==
    [name |-> name, in_air |-> in_air, grounded |-> grounded]

\* Ctx::from(cfg), with the arguments of the command line; files is ctx.conf_files()
Ctx_from(cfg, args, files) ==
    [did_init |-> cfg.did_init, internal_run |-> FALSE, conf_files |-> files, args |-> args]

\* try_main up to the command: the configuration is loaded unless --stateless;
\* [disk, res, inits] with the Ctx of the command as the result
main_loaded(l, args, files) ==
    [l EXCEPT !.res = IF l.res.ok THEN Ok(Ctx_from(l.res.value, args, files)) ELSE l.res]
try_main(d, f, args, files) ==
    IF args.stateless
    THEN [disk |-> d, res |-> Ok([Ctx_default EXCEPT !.args = args]), inits |-> <<>>]
    ELSE main_loaded(load_all(d, f), args, files)

\* RawConfig::persist: the document replaces the first file the configuration was loaded from
persist(d, cfg, f) ==
    IF cfg.loaded_from = <<>> THEN [disk |-> d, res |-> Err("MissingPath", 0)]
    ELSE IF ~d.writable THEN [disk |-> d, res |-> Err("Io", 0)]
    ELSE [disk |-> [d EXCEPT !.conf[cfg.loaded_from[1]] = to_string_pretty(cfg, f)],
          res |-> Ok(<<>>)]

\* standard input: closed, a first line, or a read error
Eof == [kind |-> "eof"]
Line(key) == [kind |-> "line", line |-> key]
ReadError == [kind |-> "error"]

\* what a login did: the files, the result, the runs of SeaplaneInit, whether
\* standard input was read and whether persist was called, what it loaded
Login(d, res, inits, read, persisted) ==
    [disk |-> d, res |-> res, inits |-> inits, read_stdin |-> read, persisted |-> persisted,
     loaded |-> Err("NotLoaded", 0)]

\* SeaplaneAccountLogin::run from the read of standard input on
login_persist(l, p) == Login(p.disk, p.res, l.inits, TRUE, TRUE)
login_read(l, c, f, stdin) ==
    IF stdin.kind = "error" THEN Login(l.disk, Err("Io", 0), l.inits, TRUE, FALSE)
    ELSE login_persist(l,
            persist(l.disk,
                    [l.res.value EXCEPT
                        !.keys["api_key"] =
                            IF stdin.kind = "line" THEN Some(stdin.line) ELSE c.args.api_key],
                    f))

\* mutant: an existing key is replaced without --force
login_checked_forced(l, c, f, stdin) ==
    IF ~l.res.ok THEN Login(l.disk, l.res, l.inits, FALSE, FALSE)
    ELSE login_read(l, c, f, stdin)

\* SeaplaneAccountLogin::run from the test of the loaded key on
login_checked(l, c, f, stdin) ==
    IF ~l.res.ok THEN Login(l.disk, l.res, l.inits, FALSE, FALSE)
    ELSE IF IsSome(l.res.value.keys["api_key"]) /\ ~c.args.force
    THEN Login(l.disk, Err("ExistingValue", 0), l.inits, FALSE, FALSE)
    ELSE login_read(l, c, f, stdin)

\* SeaplaneAccountLogin::run once the configuration is loaded (l.res)
login_loaded(l, c, f, stdin) == [login_checked(l, c, f, stdin) EXCEPT !.loaded = l.res]

\* SeaplaneAccountLogin::run
login_run(d, c, f, stdin) ==
    IF c.args.stateless THEN Login(d, Err("Bail", 0), <<>>, FALSE, FALSE)
    ELSE IF c.conf_files # <<>>
    THEN login_loaded([disk |-> d, res |-> load(d, c.conf_files[1], f), inits |-> <<>>],
                      c, f, stdin)
    ELSE login_loaded(load_all(d, f), c, f, stdin)

\* the most local formations considered
MaxFormations == 2

\* s starts with p (names are sequences of characters)
starts_with(s, p) == Len(p) <= Len(s) /\ SubSeq(s, 1, Len(p)) = p

\* Formations::formation_indices_of_matches: the formations named exactly name
formation_indices_of_matches(fs, name) ==
    SelectSeq([i \in 1..Len(fs) |-> i], LAMBDA i : fs[i].name = name)

\* Formations::formation_indices_of_left_matches: the formations whose name starts with name
formation_indices_of_left_matches(fs, name) ==
    SelectSeq([i \in 1..Len(fs) |-> i], LAMBDA i : starts_with(fs[i].name, name))

\* Ctx::persist_formations: the local formations replace the state file
persist_formations(d, fs) == [d EXCEPT !.state = State(fs)]

\* what a land did: the local formations, the files, the result, the names stop
\* requests were sent for, the number of times the state was persisted
Landing(fs, d) == [db |-> fs, disk |-> d, res |-> Ok(<<>>), stops |-> <<>>, persists |-> 0]

\* mutant: the configurations are moved to grounded before the stop request is answered
land_one_drain_first(r, idx, outcome) ==
    IF outcome = "stop_fails"
    THEN [r EXCEPT !.db[idx].in_air = {},
                   !.db[idx].grounded = r.db[idx].grounded \cup r.db[idx].in_air,
                   !.res = Err("Stop", 0)]
    ELSE IF outcome = "persist_fails" \/ ~r.disk.writable
    THEN [r EXCEPT !.db[idx].in_air = {},
                   !.db[idx].grounded = r.db[idx].grounded \cup r.db[idx].in_air,
                   !.res = Err("Io", 0)]
    ELSE [r EXCEPT !.db[idx].in_air = {},
                   !.db[idx].grounded = r.db[idx].grounded \cup r.db[idx].in_air,
                   !.disk = persist_formations(r.disk,
                                [r.db EXCEPT ![idx].in_air = {},
                                             ![idx].grounded =
                                                 r.db[idx].grounded \cup r.db[idx].in_air]),
                   !.persists = r.persists + 1]

\* the body of the loop of SeaplaneFormationLand::run for formation idx, once its
\* stop request was sent: outcome is what the remote service and the disk do
land_one(r, idx, outcome) ==
    IF outcome = "stop_fails" THEN [r EXCEPT !.res = Err("Stop", 0)]
    ELSE IF outcome = "persist_fails" \/ ~r.disk.writable
    THEN [r EXCEPT !.db[idx].in_air = {},
                   !.db[idx].grounded = r.db[idx].grounded \cup r.db[idx].in_air,
                   !.res = Err("Io", 0)]
    ELSE [r EXCEPT !.db[idx].in_air = {},
                   !.db[idx].grounded = r.db[idx].grounded \cup r.db[idx].in_air,
                   !.disk = persist_formations(r.disk,
                                [r.db EXCEPT ![idx].in_air = {},
                                             ![idx].grounded =
                                                 r.db[idx].grounded \cup r.db[idx].in_air]),
                   !.persists = r.persists + 1]

\* mutant: the loop goes on to the next formation after a failure
RECURSIVE land_each_through(_, _, _, _)
land_each_through(r, indices, script, i) ==
    IF i > Len(indices) THEN r
    ELSE land_each_through(
             land_one([r EXCEPT !.stops = Append(r.stops, r.db[indices[i]].name)],
                      indices[i], script[i]),
             indices, script, i + 1)

\* the loop of SeaplaneFormationLand::run over indices, from its i-th index on
RECURSIVE land_each(_, _, _, _)
land_each(r, indices, script, i) ==
    IF i > Len(indices) \/ ~r.res.ok THEN r
    ELSE land_each(land_one([r EXCEPT !.stops = Append(r.stops, r.db[indices[i]].name)],
                            indices[i], script[i]),
                   indices, script, i + 1)

\* mutant: several matches are landed without --all
land_matched_any(r, c, indices, script) ==
    IF Len(indices) = 0 THEN [r EXCEPT !.res = Err("NoMatchingItem", 0)]
    ELSE IF c.args.api_key = None THEN [r EXCEPT !.res = Err("MissingApiKey", 0)]
    ELSE land_each(r, indices, script, 1)

\* SeaplaneFormationLand::run once the indices are known
land_matched(r, c, indices, script) ==
    IF Len(indices) = 0 THEN [r EXCEPT !.res = Err("NoMatchingItem", 0)]
    ELSE IF Len(indices) > 1 /\ ~c.args.all THEN [r EXCEPT !.res = Err("AmbiguousItem", 0)]
    ELSE IF c.args.api_key = None THEN [r EXCEPT !.res = Err("MissingApiKey", 0)]
    ELSE land_each(r, indices, script, 1)

\* SeaplaneFormationLand::run
land_run(fs, d, c, script) ==
    land_matched(Landing(fs, d), c,
                 IF c.args.all
                 THEN formation_indices_of_left_matches(fs, Unwrap(c.args.name_id))
                 ELSE formation_indices_of_matches(fs, Unwrap(c.args.name_id)),
                 script)

\* no files, nothing run
NoDisk == [conf |-> [dir \in ConfDirs |-> Missing], state |-> Missing, writable |-> TRUE]
NoCommand ==
    [fn |-> "none", args |-> Args_default, before |-> NoDisk, res |-> Ok(<<>>), inits |-> <<>>,
     ctx |-> Ctx_default, entry |-> NoDisk, loaded |-> Ok(<<>>), stdin |-> Eof,
     read_stdin |-> FALSE, persisted |-> FALSE,
     db_before |-> <<>>, stops |-> <<>>, persists |-> 0, script |-> <<>>]

----------------------------------------------------------------------------
\* Actions

Features == [allow_insecure_urls : BOOLEAN, allow_invalid_certs : BOOLEAN,
             api_tests : BOOLEAN]
CtxValues == [insecure_urls : BOOLEAN, invalid_certs : BOOLEAN]

\* the release build: no danger-zone feature, no test feature
DefaultFeatures ==
    [allow_insecure_urls |-> FALSE, allow_invalid_certs |-> FALSE, api_tests |-> FALSE]
DefaultCtx == [insecure_urls |-> FALSE, invalid_certs |-> FALSE]

\* the state RestrictReq::new leaves, for a build and a context, beside the
\* files d and the local formations fs of the CLI
ConstructedOn(f, c, d, fs) ==
    /\ feat = f
    /\ ctx = c
    /\ self = new(c)
    /\ issued = 0
    /\ oldTokens = {}
    /\ last = NoCall
    /\ pre = OpenPre
    /\ tr = NewTokenRequest
    /\ locks = NoLocksCall
    /\ disk = d
    /\ db = fs
    /\ cmd = NoCommand

\* the state RestrictReq::new leaves, for a build and a context
Constructed(f, c) == ConstructedOn(f, c, NoDisk, <<>>)

Init == Constructed(DefaultFeatures, DefaultCtx)

Apply(call, out, p, q) ==
    /\ self' = out.self
    /\ issued' = out.issued
    /\ oldTokens' = out.oldTokens
    /\ last' = Observe(call, out, p)
    /\ pre' = q
    /\ UNCHANGED <<feat, ctx, tr, locks, disk, db, cmd>>

\* a setter call that ran to `out`
Setter(call, out) == Apply(call, out, ClosedPre, PreAfterSetter(out))

\* any other call that ran to `out`
Operation(call, out) == Apply(call, out, pre, ClosedPre)

SetApi ==
    \E v \in ApiValues :
        \E out \in Outcomes(Call("set_api", Some(v)), EmptyEnv) :
            Setter(Call("set_api", Some(v)), out)

SetDirectory ==
    \E v \in DirValues :
        \E out \in Outcomes(Call("set_directory", Some(v)), EmptyEnv) :
            Setter(Call("set_directory", Some(v)), out)

SetFromApi ==
    \E v \in FromApiValues :
        \E out \in Outcomes(Call("set_from_api", Some(v)), EmptyEnv) :
            Setter(Call("set_from_api", Some(v)), out)

SetFromDir ==
    \E v \in FromDirValues :
        \E out \in Outcomes(Call("set_from_dir", Some(v)), EmptyEnv) :
            Setter(Call("set_from_dir", Some(v)), out)

RefreshToken ==
    \E out \in Outcomes(Call("refresh_token", None), EmptyEnv) :
        Operation(Call("refresh_token", None), out)

GetRestriction ==
    \E out \in Outcomes(Call("get_restriction", None), EmptyEnv) :
        Operation(Call("get_restriction", None), out)

SetRestriction ==
    \E d \in DetailValues :
        \E out \in Outcomes(Call("set_restriction", Some(d)), EmptyEnv) :
            Operation(Call("set_restriction", Some(d)), out)

DeleteRestriction ==
    \E out \in Outcomes(Call("delete_restriction", None), EmptyEnv) :
        Operation(Call("delete_restriction", None), out)

GetPage ==
    \E out \in Outcomes(Call("get_page", None), EmptyEnv) :
        Operation(Call("get_page", None), out)

GetAllPages ==
    \E out \in Outcomes(Call("get_all_pages", None), EmptyEnv) :
        Operation(Call("get_all_pages", None), out)

Next ==
    \/ SetApi
    \/ SetDirectory
    \/ SetFromApi
    \/ SetFromDir
    \/ RefreshToken
    \/ GetRestriction
    \/ SetRestriction
    \/ DeleteRestriction
    \/ GetPage
    \/ GetAllPages

Spec == Init /\ [][Next]_vars

\* every build configuration and every context, with one setter, the token
\* refresh and one operation
InitTransport == \E f \in Features, c \in CtxValues : Constructed(f, c)

NextTransport ==
    \/ SetApi
    \/ RefreshToken
    \/ GetRestriction

SpecTransport == InitTransport /\ [][NextTransport]_vars

----------------------------------------------------------------------------
\* The Credential Provider on its own: a TokenRequestBuilder is configured and
\* built, and the TokenRequest is called, in every build configuration

\* keys a caller can pass to api_key
ApiKeyValues == {"k1", ""}

\* responses of the identity endpoint; status 0 is a transport failure
ProviderResponses ==
    {[status |-> st, body |-> b] :
        st \in {200, 201}, b \in {PlainBody(1), JsonBody(1), PartialJsonBody(1)}}
        \cup {[status |-> st, body |-> ErrorBody(st)] : st \in {400, 401, 403, 500}}
        \cup {NoResponse}

Facade == <<self, feat, ctx, issued, oldTokens, last, pre>>

\* the state of the locks API and of the CLI commands
Elsewhere == <<locks, disk, db, cmd>>

\* TokenRequest::builder()
Builder ==
    /\ tr' = [tr EXCEPT !.builder = TokenRequestBuilder_new, !.fn = "builder"]
    /\ UNCHANGED <<Facade, Elsewhere>>

ApiKey ==
    \E key \in ApiKeyValues :
        /\ tr' = [tr EXCEPT !.builder = TokenRequestBuilder_api_key(@, key),
                            !.fn = "api_key"]
        /\ UNCHANGED <<Facade, Elsewhere>>

\* allow_http exists only in a build with the feature
AllowHttp ==
    \E yes \in BOOLEAN :
        /\ feat.allow_insecure_urls
        /\ tr' = [tr EXCEPT !.builder = TokenRequestBuilder_allow_http(@, yes),
                            !.fn = "allow_http"]
        /\ UNCHANGED <<Facade, Elsewhere>>

\* allow_invalid_certs exists only in a build with the feature
AllowInvalidCerts ==
    \E yes \in BOOLEAN :
        /\ feat.allow_invalid_certs
        /\ tr' = [tr EXCEPT
                     !.builder = TokenRequestBuilder_allow_invalid_certs(@, yes),
                     !.fn = "allow_invalid_certs"]
        /\ UNCHANGED <<Facade, Elsewhere>>

\* build(self): consumes the builder; no request is sent
Build ==
    /\ tr' = [builder |-> TokenRequestBuilder_new,
              request |-> TokenRequestBuilder_build(tr.builder).req,
              fn |-> "build", resp |-> NoResponse, sent |-> <<>>,
              res |-> TokenRequestBuilder_build(tr.builder).res]
    /\ UNCHANGED <<Facade, Elsewhere>>

AccessTokenCall ==
    \E resp \in ProviderResponses :
        /\ IsSome(tr.request)
        /\ tr' = [tr EXCEPT !.fn = "access_token", !.resp = resp,
                            !.sent = access_token(Unwrap(tr.request), resp).reqs,
                            !.res = access_token(Unwrap(tr.request), resp).res]
        /\ UNCHANGED <<Facade, Elsewhere>>

AccessTokenJsonCall ==
    \E resp \in ProviderResponses :
        /\ IsSome(tr.request)
        /\ tr' = [tr EXCEPT !.fn = "access_token_json", !.resp = resp,
                            !.sent = access_token_json(Unwrap(tr.request), resp).reqs,
                            !.res = access_token_json(Unwrap(tr.request), resp).res]
        /\ UNCHANGED <<Facade, Elsewhere>>

InitProvider == \E f \in Features : Constructed(f, DefaultCtx)

NextProvider ==
    \/ Builder
    \/ ApiKey
    \/ AllowHttp
    \/ AllowInvalidCerts
    \/ Build
    \/ AccessTokenCall
    \/ AccessTokenJsonCall

SpecProvider == InitProvider /\ [][NextProvider]_vars

----------------------------------------------------------------------------
\* The locks API's error mapping on its own: any status, any body

\* the bodies a response to a locks request carries
LocksBodies(st) ==
    {ErrorBody(st), PlainBody(0), [format |-> "json", content |-> [status |-> st]]}

\* everything but the locks API
NotLocks == <<Facade, tr, disk, db, cmd>>

\* LocksErrorKind::from(code)
Classify ==
    \E code \in {None} \cup {Some(st) : st \in StatusCodes} :
        /\ locks' = [NoLocksCall EXCEPT !.fn = "from", !.code = code,
                                        !.kind = LocksErrorKind_from(code)]
        /\ UNCHANGED NotLocks

\* map_error(resp)
MapError ==
    \E st \in StatusCodes :
        \E body \in LocksBodies(st) :
            /\ locks' = [NoLocksCall EXCEPT !.fn = "map_error",
                                            !.resp = [status |-> st, body |-> body],
                                            !.res = map_error([status |-> st, body |-> body])]
            /\ UNCHANGED NotLocks

InitLocks == Constructed(DefaultFeatures, DefaultCtx)

NextLocks ==
    \/ Classify
    \/ MapError

SpecLocks == InitLocks /\ [][NextLocks]_vars

----------------------------------------------------------------------------
\* Loading the configuration on its own: any layers on disk, any danger-zone build

\* the keys a sample layer sets, and the danger-zone flags it writes
LayerKeys == {{}, {"api_key"}, OptionKeys \ {"api_key"}, OptionKeys}
LayerFlags ==
    {NoFlags,
     [NoFlags EXCEPT !["allow_insecure_urls"] = Some(TRUE)],
     [NoFlags EXCEPT !["allow_insecure_urls"] = Some(FALSE)],
     [NoFlags EXCEPT !["allow_invalid_certs"] = Some(TRUE)]}

\* the layer of directory dir that sets the keys ks, each to a value naming the directory
Layer(dir, ks, fl) == Toml([k \in OptionKeys |-> IF k \in ks THEN Some(dir) ELSE None], fl)

\* what the config file of directory dir is
ConfFiles(dir) == {Missing, Garbage} \cup {Layer(dir, ks, fl) : ks \in LayerKeys, fl \in LayerFlags}

\* what the state file is
StateFiles == {Missing, State(<<Formation("f1", {1}, {})>>)}

ConfigDisks ==
    {[conf |-> c, state |-> st, writable |-> w] :
        c \in {x \in [ConfDirs -> UNION {ConfFiles(dir) : dir \in ConfDirs}] :
                  \A dir \in ConfDirs : x[dir] \in ConfFiles(dir)},
        st \in StateFiles, w \in BOOLEAN}

\* the builds that differ in the danger-zone features
DangerZoneFeatures == {f \in Features : ~f.api_tests}

\* everything but the CLI's files and last command
NotCli == <<Facade, tr, locks, db>>

\* RawConfig::load_all()
LoadAll ==
    /\ disk' = load_all(disk, feat).disk
    /\ cmd' = [NoCommand EXCEPT !.fn = "load_all", !.before = disk,
                                !.res = load_all(disk, feat).res,
                                !.inits = load_all(disk, feat).inits]
    /\ UNCHANGED NotCli

InitConfig ==
    \E f \in DangerZoneFeatures : \E d \in ConfigDisks : ConstructedOn(f, DefaultCtx, d, <<>>)

NextConfig == LoadAll

SpecConfig == InitConfig /\ [][NextConfig]_vars

----------------------------------------------------------------------------
\* One invocation of the CLI: seaplane init, seaplane account login

\* what the config file of directory dir is
CliConfFiles(dir) ==
    {Missing, Garbage, Layer(dir, {}, NoFlags), Layer(dir, {"api_key"}, NoFlags)}

CliDisks ==
    {[conf |-> c, state |-> st, writable |-> w] :
        c \in {x \in [ConfDirs -> UNION {CliConfFiles(dir) : dir \in ConfDirs}] :
                  \A dir \in ConfDirs : x[dir] \in CliConfFiles(dir)},
        st \in StateFiles, w \in BOOLEAN}

\* the values of --overwrite
OverwriteItems == {"all", "formations", "config"}

\* the API key typed on standard input, and the one given on the command line
TypedKey == NumConfDirs + 1
ArgKey == NumConfDirs + 2
StdinValues == {Eof, Line(TypedKey), ReadError}

\* the command once try_main loaded the configuration; m is try_main's result
init_command(m, f) ==
    IF ~m.res.ok THEN [disk |-> m.disk, res |-> m.res, inits |-> m.inits]
    ELSE [disk |-> init_run(m.disk, m.res.value, f).disk,
          res |-> init_run(m.disk, m.res.value, f).res,
          inits |-> Append(m.inits, init_run(m.disk, m.res.value, f))]

login_command(m, f, stdin) ==
    IF ~m.res.ok THEN Login(m.disk, m.res, m.inits, FALSE, FALSE)
    ELSE login_run(m.disk, m.res.value, f, stdin)

\* seaplane [--stateless] init [--force] [--overwrite=ITEM,..]
InitCommand ==
    \E force \in BOOLEAN, stateless \in BOOLEAN, overwrite \in SUBSET OverwriteItems :
        LET args == [Args_default EXCEPT !.force = force, !.stateless = stateless,
                                         !.overwrite = overwrite]
            m == try_main(disk, feat, args, <<>>)
        IN  /\ cmd.fn = "none"
            /\ disk' = init_command(m, feat).disk
            /\ cmd' = [NoCommand EXCEPT !.fn = "init", !.args = args, !.before = disk,
                                        !.ctx = IF m.res.ok THEN m.res.value ELSE Ctx_default,
                                        !.entry = m.disk,
                                        !.res = init_command(m, feat).res,
                                        !.inits = init_command(m, feat).inits]
            /\ UNCHANGED NotCli

\* seaplane [--stateless] [--api-key KEY] account login [--force]
LoginCommand ==
    \E force \in BOOLEAN, stateless \in BOOLEAN, key \in {None, Some(ArgKey)},
       files \in {<<>>} \cup {<<dir>> : dir \in ConfDirs}, stdin \in StdinValues :
        LET args == [Args_default EXCEPT !.force = force, !.stateless = stateless,
                                         !.api_key = key]
            m == try_main(disk, feat, args, files)
        IN  /\ cmd.fn = "none"
            /\ disk' = login_command(m, feat, stdin).disk
            /\ cmd' = [NoCommand EXCEPT !.fn = "login", !.args = args, !.before = disk,
                                        !.ctx = IF m.res.ok THEN m.res.value ELSE Ctx_default,
                                        !.entry = m.disk,
                                        !.loaded = login_command(m, feat, stdin).loaded,
                                        !.stdin = stdin,
                                        !.res = login_command(m, feat, stdin).res,
                                        !.inits = m.inits \o login_command(m, feat, stdin).inits,
                                        !.read_stdin = login_command(m, feat, stdin).read_stdin,
                                        !.persisted = login_command(m, feat, stdin).persisted]
            /\ UNCHANGED NotCli

InitCli == \E d \in CliDisks : ConstructedOn(DefaultFeatures, DefaultCtx, d, <<>>)

NextCli ==
    \/ InitCommand
    \/ LoginCommand

SpecCli == InitCli /\ [][NextCli]_vars

----------------------------------------------------------------------------
\* seaplane formation land on its own: any local formations, any remote outcome

\* formation names, the name given on the command line
Names == {<<"a">>, <<"a", "b">>}
NameArgs == Names \cup {<<"b">>}

\* a local formation, with configurations in air and grounded or without
LocalFormations ==
    {Formation(n, a, g) : n \in Names, a \in {{}, {1}}, g \in {{}, {2}}}

\* the local formations: up to MaxFormations of them, names may repeat
LocalDbs == UNION {[1..n -> LocalFormations] : n \in 0..MaxFormations}

\* what happens to the formation processed i-th: its stop request succeeds or
\* fails, and the write of the state file succeeds or fails
LandOutcomes == {"ok", "stop_fails", "persist_fails"}

\* everything but the CLI
NotLand == <<Facade, tr, locks>>

\* seaplane [--api-key KEY] formation land NAME [--all]
LandCommand ==
    \E name \in NameArgs, all \in BOOLEAN, key \in {None, Some(ArgKey)},
       script \in [1..MaxFormations -> LandOutcomes] :
        LET c == [Ctx_default EXCEPT !.args.name_id = Some(name), !.args.all = all,
                                     !.args.api_key = key]
        IN  /\ cmd.fn = "none"
            /\ db' = land_run(db, disk, c, script).db
            /\ disk' = land_run(db, disk, c, script).disk
            /\ cmd' = [NoCommand EXCEPT !.fn = "land", !.args = c.args, !.ctx = c,
                                        !.before = disk, !.entry = disk, !.db_before = db,
                                        !.script = script,
                                        !.res = land_run(db, disk, c, script).res,
                                        !.stops = land_run(db, disk, c, script).stops,
                                        !.persists = land_run(db, disk, c, script).persists]
            /\ UNCHANGED NotLand

InitLand ==
    \E fs \in LocalDbs : \E w \in BOOLEAN :
        ConstructedOn(DefaultFeatures, DefaultCtx,
                      [NoDisk EXCEPT !.state = State(fs), !.writable = w], fs)

NextLand == LandCommand

SpecLand == InitLand /\ [][NextLand]_vars

----------------------------------------------------------------------------
\* What the endpoints do during the last call, read off its script

\* the status that ended attempt k (the last answer of its run)
EndStatus(k) == last.env.runs[k][Len(last.env.runs[k])].status

\* the identity endpoint returned a token whenever it was asked
IdentityAlwaysIssues == \A i \in 1..Len(last.env.ids) : last.env.ids[i] = "token"

\* the resource endpoint answered 401 to the first attempt and 200 to every
\* attempt after it
Answers401Then200 ==
    /\ Len(last.env.runs) >= 1
    /\ last.env.runs[1] = <<[status |-> 401, cursor |-> None]>>
    /\ \A k \in 2..Len(last.env.runs) :
           last.env.runs[k] = <<[status |-> 200, cursor |-> None]>>

\* the resource endpoint answered 401 to every request
AnswersAlways401 ==
    /\ Len(last.env.runs) >= 1
    /\ \A k \in 1..Len(last.env.runs) :
           last.env.runs[k] = <<[status |-> 401, cursor |-> None]>>

----------------------------------------------------------------------------
\* C1 (P1 retry-once): a single-request operation on a facade whose Bound
\* Request is built, answered 401 then 200 by the resource endpoint and given
\* a token by the identity endpoint, succeeds after exactly two resource
\* requests and exactly one identity request.
C1_RetryOnce ==
    (last.fn \in SingleOps /\ last.built /\ Answers401Then200 /\ IdentityAlwaysIssues)
        => /\ last.res.ok
           /\ Len(last.sent) = 2
           /\ Len(last.ids) = 1

C1_Witness ==
    /\ last.fn \in SingleOps /\ last.built
    /\ Answers401Then200 /\ IdentityAlwaysIssues
    /\ last.res.ok /\ Len(last.sent) = 2 /\ Len(last.ids) = 1

\* C3 (P2 no infinite loop): an operation on a facade whose Bound Request is
\* built, answered 401 by every resource request while the identity endpoint
\* keeps issuing tokens, ends with the HTTP 401 error after exactly two
\* resource requests and exactly one identity request.
C3_NoInfiniteLoop ==
    (last.fn \in Ops /\ last.built /\ AnswersAlways401 /\ IdentityAlwaysIssues)
        => /\ last.res = Err("ApiResponse", 401)
           /\ Len(last.sent) = 2
           /\ Len(last.ids) = 1

C3_Witness ==
    /\ last.fn \in Ops /\ last.built
    /\ AnswersAlways401 /\ IdentityAlwaysIssues
    /\ last.res = Err("ApiResponse", 401)
    /\ Len(last.sent) = 2 /\ Len(last.ids) = 1

\* C4 (attempt bound): whatever the endpoints answer, a single-request
\* operation sends at most two resource requests, and any wrapped operation
\* (get_all_pages included) re-authenticates at most once.
C4_AttemptBound ==
    /\ last.fn \in SingleOps => Len(last.sent) <= 2
    /\ last.fn \in Ops => last.reauths <= 1 /\ last.attempts <= 2

C4_Witness ==
    /\ last.fn = "get_all_pages"
    /\ last.reauths = 1
    /\ last.attempts = 2
    /\ Len(last.sent) > 2

\* C2 (P7 credential immutability), as claimed: no resource request carries a
\* token that a successful re-authentication had already replaced when the
\* request was sent.
C2_NoOldToken ==
    \A i \in 1..Len(last.sent) : ~last.sent[i].stale

\* C5, as claimed: a first attempt that fails with anything but HTTP 401 is
\* returned unchanged after exactly one resource request and no identity
\* request.
C5_Original ==
    (last.fn \in Ops /\ Len(last.env.runs) >= 1 /\ EndStatus(1) \notin {200, 401})
        => /\ last.res = ResultOfStatus(EndStatus(1), <<>>)
           /\ Len(last.sent) = 1
           /\ Len(last.ids) = 0

\* C5, amended: a first attempt that fails with anything but HTTP 401 is
\* returned unchanged, with no second attempt and no re-authentication; the
\* resource requests are those of that one attempt (one for a single-request
\* operation), and the identity endpoint is called at most once, for the
\* lazy token acquisition, and not at all when the Bound Request was built.
C5_RetryOnlyOn401 ==
    (last.fn \in Ops /\ Len(last.env.runs) >= 1 /\ EndStatus(1) \notin {200, 401})
        => /\ last.res = ResultOfStatus(EndStatus(1), <<>>)
           /\ last.attempts = 1
           /\ last.reauths = 0
           /\ Len(last.sent) = Len(last.env.runs[1])
           /\ last.fn \in SingleOps => Len(last.sent) = 1
           /\ Len(last.ids) <= 1
           /\ last.built => Len(last.ids) = 0

C5_Witness ==
    /\ last.fn \in SingleOps /\ last.built
    /\ Len(last.env.runs) = 1 /\ EndStatus(1) = 409
    /\ last.res = Err("ApiResponse", 409)
    /\ Len(last.sent) = 1 /\ Len(last.ids) = 0

\* C6 (token coherence), as claimed: whenever a Bound Request is cached, the
\* token bound into it is the token of the facade's current Credential.
C6_TokenCoherence ==
    IsSome(self.inner)
        => /\ IsSome(self.token)
           /\ Unwrap(self.inner).token = Unwrap(self.token).token

----------------------------------------------------------------------------
\* the cached Bound Request targets what the targeting parameters say
InnerMatchesParameters ==
    /\ IsSome(self.inner)
    /\ LET t == Unwrap(self.inner).target
       IN /\ t.api = self.api
          /\ t.directory = self.directory
          /\ t.shape # "single" => t.from_dir = self.from_dir
          /\ t.shape = "all_range" => t.from_api = self.from_api

\* a build recorded in the last call used the parameters the facade holds
BuildUsesParameters(b) ==
    /\ b.api = self.api
    /\ b.directory = self.directory
    /\ b.from_api = self.from_api
    /\ b.from_dir = self.from_dir

C8_ShapeSelection ==
    \A i \in 1..Len(last.builds) :
        LET b == last.builds[i]
            shape == IF b.ok THEN Unwrap(b.req).target.shape ELSE "none"
        IN /\ (IsSome(b.api) /\ IsSome(b.directory)) => shape = "single"
           /\ (IsSome(b.api) /\ IsNone(b.directory)) => shape = "api_range"
           /\ (IsNone(b.api) /\ IsNone(b.directory)) => shape = "all_range"
           /\ b.ok => /\ Unwrap(b.req).target.api = b.api
                      /\ Unwrap(b.req).target.directory = b.directory

C8_Witness ==
    /\ Len(last.builds) = 1
    /\ last.builds[1].ok
    /\ IsSome(last.builds[1].api) /\ IsNone(last.builds[1].directory)
    /\ Unwrap(last.builds[1].req).target.shape = "api_range"

\* a build attempted with a directory and no api
InvalidShapeBuild(l) ==
    /\ Len(l.builds) >= 1
    /\ IsNone(l.builds[Len(l.builds)].api)
    /\ IsSome(l.builds[Len(l.builds)].directory)

----------------------------------------------------------------------------
\* transport settings of the requests of the last call and of the cache
TokenRequestsHttpsOnly == \A i \in 1..Len(last.ids) : last.ids[i].https_only
BoundRequestsHttpsOnly ==
    /\ \A i \in 1..Len(last.sent) : last.sent[i].https_only
    /\ IsSome(self.inner) => Unwrap(self.inner).https_only
NoInvalidCertsAccepted ==
    /\ \A i \in 1..Len(last.ids) : ~last.ids[i].accept_invalid_certs
    /\ IsSome(self.inner) => ~Unwrap(self.inner).accept_invalid_certs

\* C10 (P6 transport safety floor), as claimed: in every build without the
\* insecure-URL feature the facade's flag is false and token requests and
\* Bound Requests enforce HTTPS; likewise for invalid certificates.
C10_Original ==
    /\ ~feat.allow_insecure_urls
          => ~self.insecure_urls /\ TokenRequestsHttpsOnly /\ BoundRequestsHttpsOnly
    /\ ~feat.allow_invalid_certs
          => ~self.invalid_certs /\ NoInvalidCertsAccepted

\* C10, amended: the same, for token requests and Bound Requests only in
\* builds that also lack the api_tests feature (which switches HTTPS
\* enforcement off whatever the other features are).
C10_TransportFloor ==
    /\ ~feat.allow_insecure_urls
          => /\ ~self.insecure_urls
             /\ ~feat.api_tests => (TokenRequestsHttpsOnly /\ BoundRequestsHttpsOnly)
    /\ ~feat.allow_invalid_certs
          => ~self.invalid_certs /\ NoInvalidCertsAccepted

C10_Witness ==
    /\ ~feat.allow_insecure_urls /\ ~feat.allow_invalid_certs /\ ~feat.api_tests
    /\ ctx.insecure_urls /\ ctx.invalid_certs
    /\ Len(last.ids) >= 1 /\ Len(last.sent) >= 1
    /\ ~self.insecure_urls /\ TokenRequestsHttpsOnly /\ BoundRequestsHttpsOnly

----------------------------------------------------------------------------
\* the TokenRequest a builder on which only api_key was called builds
DefaultTokenRequest == Unwrap(TokenRequestBuilder_build(TokenRequestBuilder(Some("k1"))).req)

\* the Bound Requests the last call built, and the one the facade caches
BoundRequestsOfLast ==
    {Unwrap(last.builds[i].req) : i \in {j \in 1..Len(last.builds) : last.builds[j].ok}}
        \cup (IF IsSome(self.inner) THEN {Unwrap(self.inner)} ELSE {})

\* every token request and Bound Request accepts plaintext HTTP only if the
\* configured flag is set
PlaintextOnlyIfFlag ==
    /\ \A i \in 1..Len(last.ids) : ~last.ids[i].https_only => ctx.insecure_urls
    /\ \A i \in 1..Len(last.sent) : ~last.sent[i].https_only => ctx.insecure_urls
    /\ \A r \in BoundRequestsOfLast : ~r.https_only => ctx.insecure_urls

\* every token request and Bound Request accepts invalid certificates only if
\* the configured flag is set
InvalidCertsOnlyIfFlag ==
    /\ \A i \in 1..Len(last.ids) : last.ids[i].accept_invalid_certs => ctx.invalid_certs
    /\ \A r \in BoundRequestsOfLast : r.accept_invalid_certs => ctx.invalid_certs

\* C11 (transport options off unless enabled), as claimed: with the
\* insecure-transport features compiled in, a token request or Bound Request
\* accepts plaintext HTTP only if the configured flag set allow_http(true),
\* and invalid certificates only if the flag set allow_invalid_certs(true); a
\* token request built without either call enforces HTTPS and certificate
\* validation.
C11_Original ==
    /\ feat.allow_insecure_urls => PlaintextOnlyIfFlag
    /\ feat.allow_invalid_certs => InvalidCertsOnlyIfFlag
    /\ DefaultTokenRequest.https_only
    /\ ~DefaultTokenRequest.accept_invalid_certs

\* C11, amended: the same in builds without the api_tests feature; with
\* api_tests compiled in, every token request accepts plaintext HTTP whatever
\* was set on its builder, while certificate validation stays as claimed.
C11_OffUnlessEnabled ==
    /\ (feat.allow_insecure_urls /\ ~feat.api_tests) => PlaintextOnlyIfFlag
    /\ feat.allow_invalid_certs => InvalidCertsOnlyIfFlag
    /\ ~feat.api_tests => DefaultTokenRequest.https_only
    /\ feat.api_tests
          => /\ ~DefaultTokenRequest.https_only
             /\ \A i \in 1..Len(last.ids) : ~last.ids[i].https_only
    /\ ~DefaultTokenRequest.accept_invalid_certs

C11_Witness ==
    /\ feat.allow_insecure_urls /\ feat.allow_invalid_certs /\ ~feat.api_tests
    /\ ctx.insecure_urls /\ ~ctx.invalid_certs
    /\ Len(last.ids) >= 1 /\ Len(last.sent) >= 1
    /\ ~last.ids[1].https_only /\ ~last.ids[1].accept_invalid_certs
    /\ ~last.sent[1].https_only
    /\ DefaultTokenRequest.https_only

----------------------------------------------------------------------------
\* the identity endpoint's answer to the first re-authentication of the last
\* call: the answers before it are those of the lazy token acquisition
FirstReauthAnswer == last.env.ids[Len(last.ids) - last.reauths + 1]

\* the first attempt of the last call ended in 401 and the re-authentication
\* that followed was given a token
RetriedAfter401 ==
    /\ last.fn \in Ops
    /\ Len(last.env.runs) >= 1
    /\ EndStatus(1) = 401
    /\ last.reauths >= 1
    /\ FirstReauthAnswer = "token"

\* C12 (second attempt is final): when the first attempt ends in 401 and the
\* re-authentication succeeds, exactly one further attempt is made; the
\* operation succeeds if that attempt succeeds and otherwise returns that
\* attempt's error with its kind and status unchanged; the resource requests
\* are those of the two attempts and the re-authentication is the only
\* identity request after the first attempt.
C12_SecondAttemptFinal ==
    RetriedAfter401
        => /\ last.attempts = 2
           /\ Len(last.env.runs) = 2
           /\ last.reauths = 1
           /\ last.res.ok <=> EndStatus(2) = 200
           /\ ~last.res.ok => last.res = ResultOfStatus(EndStatus(2), <<>>)
           /\ Len(last.sent) = Len(last.env.runs[1]) + Len(last.env.runs[2])
           /\ Len(last.ids) = Len(last.env.ids)
           /\ Len(last.ids) <= 2
           /\ last.built => Len(last.ids) = 1

C12_Witness ==
    /\ RetriedAfter401
    /\ last.fn \in SingleOps /\ last.built
    /\ EndStatus(2) = 409
    /\ last.res = Err("ApiResponse", 409)
    /\ Len(last.sent) = 2 /\ Len(last.ids) = 1

----------------------------------------------------------------------------
\* the resource endpoint answered the first page request with a page and the
\* cursor "c1", and a second page request, if one came, with a page and no
\* cursor
TwoPagesServed ==
    /\ Len(last.env.runs) = 1
    /\ last.env.runs[1][1] = [status |-> 200, cursor |-> Some("c1")]
    /\ Len(last.env.runs[1]) >= 2
          => last.env.runs[1][2] = [status |-> 200, cursor |-> None]

\* C13 (P5 pagination concatenation): when the endpoint serves page 1 with
\* cursor "c1" and page 2 without a cursor, get_all_pages returns the items of
\* page 1 followed by those of page 2 and sends exactly two page requests,
\* the first without a cursor and the second with the cursor "c1".
C13_PaginationConcatenation ==
    (last.fn = "get_all_pages" /\ TwoPagesServed)
        => /\ last.res = Ok(<<1, 2>>)
           /\ Len(last.sent) = 2
           /\ last.sent[1].from = None
           /\ last.sent[2].from = Some("c1")
           /\ last.sent[1].target = last.sent[2].target

C13_Witness ==
    /\ last.fn = "get_all_pages" /\ TwoPagesServed
    /\ last.res = Ok(<<1, 2>>)
    /\ Len(last.sent) = 2
    /\ last.sent[2].from = Some("c1")

----------------------------------------------------------------------------
\* the pages the final attempt of the last call fetched, one item per page
PagesOfFinalAttempt == [i \in 1..Len(last.env.runs[last.attempts]) |-> i]

\* a page request of the final attempt of the last get_all_pages call failed
PageFailed ==
    /\ last.fn = "get_all_pages"
    /\ last.attempts >= 1
    /\ EndStatus(last.attempts) # 200

\* C14 (get_all_pages is all-or-nothing): when a page request of the final
\* attempt fails, get_all_pages returns an error that carries no items of
\* the pages fetched before it: the error of the failed page, or the
\* identity error when that page's 401 could not be followed by a
\* re-authentication; a get_all_pages that succeeds returns every page of
\* its final attempt.
C14_AllOrNothing ==
    /\ PageFailed
          => /\ ~last.res.ok
             /\ last.res.value = <<>>
             /\ \/ last.res = ResultOfStatus(EndStatus(last.attempts), <<>>)
                \/ /\ last.res = Err("Identity", 0)
                   /\ last.attempts = 1
                   /\ EndStatus(1) = 401
    /\ (last.fn = "get_all_pages" /\ last.res.ok)
          => last.res = Ok(PagesOfFinalAttempt)

C14_Witness ==
    /\ PageFailed
    /\ last.attempts = 1
    /\ last.env.runs[1] = <<[status |-> 200, cursor |-> Some("c1")],
                            [status |-> 500, cursor |-> None]>>
    /\ Len(last.sent) = 2
    /\ last.res = Err("ApiResponse", 500)

----------------------------------------------------------------------------
\* the call observed in l was an operation that succeeded on its first attempt
SucceededFirst(l) == l.fn \in Ops /\ l.res.ok /\ l.attempts = 1

\* the targeting parameters of a facade
Targeting(s) ==
    [api |-> s.api, directory |-> s.directory, from_api |-> s.from_api,
     from_dir |-> s.from_dir]

\* C15, as claimed: an operation that succeeds on its first attempt leaves
\* the facade's Credential, targeting parameters and cached Bound Request
\* unchanged.
C15_Original ==
    [][SucceededFirst(last')
          => /\ self'.token = self.token
             /\ Targeting(self') = Targeting(self)
             /\ self'.inner = self.inner]_vars

\* C15, amended (success keeps the cache): an operation that succeeds on its
\* first attempt leaves the targeting parameters unchanged and, on a facade that
\* holds a cached Bound Request, leaves the Credential and the cached Bound
\* Request unchanged as well; it always ends with a Bound Request cached, and
\* the same operation invoked next constructs no Bound Request and calls the
\* identity endpoint only to re-authenticate after a 401, so not at all when
\* it succeeds on its first attempt too.
C15_SuccessKeepsCache ==
    [][/\ SucceededFirst(last')
           => /\ Targeting(self') = Targeting(self)
              /\ IsSome(self'.inner) /\ IsSome(self'.token)
              /\ last'.built
                    => /\ self' = self
                       /\ issued' = issued
                       /\ last'.builds = <<>>
                       /\ last'.ids = <<>>
       /\ (SucceededFirst(last) /\ last'.fn = last.fn /\ last'.arg = last.arg)
           => /\ last'.built
              /\ last'.builds = <<>>
              /\ Len(last'.ids) = last'.reauths
              /\ SucceededFirst(last') => last'.ids = <<>>]_vars

C15_Witness ==
    /\ SucceededFirst(last)
    /\ last.fn = "get_restriction"
    /\ last.built
    /\ last.builds = <<>> /\ last.ids = <<>>
    /\ Len(last.sent) = 1
    /\ IsSome(self.inner)
    /\ issued = 1

----------------------------------------------------------------------------
\* no resource response of the call observed in l was a 401
No401(l) ==
    \A k \in 1..Len(l.env.runs) :
        \A i \in 1..Len(l.env.runs[k]) : l.env.runs[k][i].status # 401

----------------------------------------------------------------------------
\* C17 (retry uses the original arguments): every request of a
\* set_restriction call carries the details the caller passed in; when the
\* call is retried after a 401, the second request carries the same details
\* as the first.
C17_RetrySameArguments ==
    last.fn = "set_restriction"
        => /\ \A i \in 1..Len(last.sent) :
                  /\ last.sent[i].fn = "set_restriction"
                  /\ last.sent[i].body = last.arg
           /\ Len(last.sent) = 2
                 => /\ EndStatus(1) = 401
                    /\ last.sent[2].body = last.sent[1].body
                    /\ last.sent[2].target = last.sent[1].target

C17_Witness ==
    /\ last.fn = "set_restriction"
    /\ last.arg = Some("det2")
    /\ Len(last.sent) = 2
    /\ EndStatus(1) = 401
    /\ last.sent[1].body = Some("det2")
    /\ last.sent[2].body = Some("det2")

----------------------------------------------------------------------------
\* the last thing done with the TokenRequest was one of its two calls
ProviderCalled == tr.fn \in {"access_token", "access_token_json"}

\* the error a response that is no success is classified as
ClassifiedError(resp) ==
    IF resp.status = 0 THEN Err("Transport", 0)
    ELSE Err("ApiResponse", resp.status)

\* C18 (one round trip, no retry): a call of access_token or
\* access_token_json sends exactly one request to the identity endpoint; when
\* the response is no success the call returns the classified error, still
\* after that one request.
C18_OneRoundTrip ==
    ProviderCalled
        => /\ Len(tr.sent) = 1
           /\ tr.resp.status \notin {200, 201}
                 => tr.res = ClassifiedError(tr.resp)

C18_Witness ==
    /\ tr.fn = "access_token_json"
    /\ tr.resp.status = 401
    /\ tr.res = Err("ApiResponse", 401)
    /\ Len(tr.sent) = 1

\* C19 (API key required at construction), as claimed: build fails with the
\* missing-api-key error, and sends nothing, whenever the builder holds no
\* api_key or an empty one; no TokenRequest holds an empty API key and no
\* token request is sent with one.
C19_ApiKeyRequired ==
    [][/\ (tr'.fn = "build" /\ tr.builder.api_key \in {None, Some("")})
           => /\ tr'.res = Err("MissingRequestApiKey", 0)
              /\ IsNone(tr'.request)
              /\ tr'.sent = <<>>
       /\ IsSome(tr'.request) => Unwrap(tr'.request).api_key # ""
       /\ \A i \in 1..Len(tr'.sent) : tr'.sent[i].authorization # <<"Bearer", "">>]_vars

\* C20 (token request form and variant selection): every token request is a
\* POST to v1/token with Authorization: Bearer <api_key>; access_token sends
\* Accept */* and returns the body of a successful response as it is;
\* access_token_json sends Accept application/json and returns the token,
\* tenant and subdomain parsed from the body, or a decoding error when the
\* body is no such JSON object; which of the two happens depends on the
\* method called alone.
C20_TokenRequestForm ==
    ProviderCalled
        => /\ Len(tr.sent) >= 1
           /\ \A i \in 1..Len(tr.sent) :
                 /\ tr.sent[i].method = "POST"
                 /\ tr.sent[i].path = "v1/token"
                 /\ tr.sent[i].authorization = <<"Bearer", Unwrap(tr.request).api_key>>
                 /\ tr.sent[i].accept
                       = IF tr.fn = "access_token" THEN "*/*" ELSE "application/json"
           /\ (tr.fn = "access_token" /\ tr.resp.status \in {200, 201})
                 => tr.res = Ok(tr.resp.body)
           /\ (tr.fn = "access_token_json" /\ tr.resp.status \in {200, 201})
                 => IF tr.resp.body = JsonBody(1)
                    THEN tr.res = Ok([token |-> 1, tenant |-> "tnt", subdomain |-> "sub"])
                    ELSE tr.res = Err("Decode", 0)

C20_Witness ==
    /\ tr.fn = "access_token"
    /\ tr.resp = [status |-> 201, body |-> JsonBody(1)]
    /\ tr.res = Ok(JsonBody(1))
    /\ Len(tr.sent) = 1
    /\ tr.sent[1].accept = "*/*"
    /\ tr.sent[1].authorization = <<"Bearer", "k1">>

----------------------------------------------------------------------------
\* The named statuses of the locks API and the kinds they are given
NamedKinds ==
    [s \in {400, 401, 404, 409, 500, 503} |->
        CASE s = 400 -> "InvalidRequest"
          [] s = 401 -> "NotLoggedIn"
          [] s = 404 -> "LockNotFound"
          [] s = 409 -> "LockAlreadyHeld"
          [] s = 500 -> "InternalError"
          [] s = 503 -> "ServiceUnavailable"]

\* the kind the table of named statuses gives a status
KindOfStatus(code) ==
    IF code = None THEN LocksErrorKind("Unknown")
    ELSE IF Unwrap(code) \in DOMAIN NamedKinds THEN LocksErrorKind(NamedKinds[Unwrap(code)])
    ELSE UnimplementedHttpStatus(Unwrap(code))

\* C21: status classification is total and one-to-one: each of 400, 401, 404,
\* 409, 500, 503 is given its own kind, every other status is given
\* UnimplementedHttpStatus carrying that exact code, an absent status is given
\* Unknown, no two distinct statuses are given the same kind, and 401 is the
\* only status given NotLoggedIn.
C21_StatusClassification ==
    locks.fn = "from" =>
        /\ locks.kind = KindOfStatus(locks.code)
        /\ \A st \in StatusCodes :
               LocksErrorKind_from(Some(st)) = locks.kind => Some(st) = locks.code
        /\ locks.kind.name = "NotLoggedIn" <=> locks.code = Some(401)

\* an unnamed status in the 4xx range was classified
C21_Witness ==
    /\ locks.fn = "from"
    /\ locks.code = Some(403)
    /\ locks.kind = UnimplementedHttpStatus(403)

\* C28: for every response with a 4xx or 5xx status map_error returns a
\* LocksError whose kind is the classification of that status, whatever the
\* body contains; a response with any other status is returned unchanged as Ok.
C28_ClassificationIgnoresBody ==
    locks.fn = "map_error" =>
        IF locks.resp.status >= 400 /\ locks.resp.status <= 599
        THEN /\ locks.res.kind = "LocksError"
             /\ locks.res.locks_kind = LocksErrorKind_from(Some(locks.resp.status))
        ELSE locks.res = Ok(locks.resp)

----------------------------------------------------------------------------
\* The configuration files load_all read, taken from the files before the call

\* the directories whose config file exists, in search order
PresentDirs(d) == SelectSeq([dir \in ConfDirs |-> dir], LAMBDA dir : d.conf[dir].kind # "missing")

\* the directories whose config file exists and does not load
BadDirs(d) == {dir \in ConfDirs : d.conf[dir].kind # "missing" /\ ~from_str(d.conf[dir], feat).ok}

\* the last directory whose config file writes key k of table t, if there is one
SettersOf(d, t, k) == {dir \in ConfDirs : d.conf[dir].kind = "toml" /\ IsSome(d.conf[dir][t][k])}
LastSetter(d, t, k) == CHOOSE dir \in SettersOf(d, t, k) : \A o \in SettersOf(d, t, k) : o <= dir

\* C26: load_all skips a directory whose config file does not exist, is ended
\* with the error of any other load failure, and runs the automatic
\* initialization (and sets did_init) if and only if no directory has a config file.
C26_LoadAllOutcome ==
    cmd.fn = "load_all" =>
        /\ BadDirs(cmd.before) # {} =>
               /\ cmd.res = Err("Toml", 0)
               /\ disk = cmd.before
        /\ BadDirs(cmd.before) = {} /\ cmd.res.ok =>
               cmd.res.value.loaded_from = PresentDirs(cmd.before)
        /\ Len(cmd.inits) = 1 <=> PresentDirs(cmd.before) = <<>>
        /\ Len(cmd.inits) = 0 => disk = cmd.before
        /\ cmd.res.ok => (cmd.res.value.did_init <=> PresentDirs(cmd.before) = <<>>)

\* the first directory has no config file and the second one's was loaded
C26_Witness ==
    /\ cmd.fn = "load_all"
    /\ cmd.before.conf[1] = Missing
    /\ cmd.res.ok
    /\ cmd.res.value.loaded_from = <<2>>
    /\ ~cmd.res.value.did_init

\* C23: after load_all merged the layers in search order every key, the
\* danger-zone flags included, holds the value of the last layer that sets it
\* (the default if no layer sets it).
C23_Layering ==
    cmd.fn = "load_all" /\ cmd.res.ok =>
        /\ \A k \in OptionKeys :
               cmd.res.value.keys[k] =
                   IF SettersOf(cmd.before, "keys", k) = {} THEN None
                   ELSE cmd.before.conf[LastSetter(cmd.before, "keys", k)].keys[k]
        /\ \A k \in FlagKeys :
               cmd.res.value.flags[k] =
                   IF SettersOf(cmd.before, "flags", k) = {} THEN FALSE
                   ELSE Unwrap(cmd.before.conf[LastSetter(cmd.before, "flags", k)].flags[k])

\* the part of C23 that is about the keys held as Option
OptionKeysLayered ==
    cmd.fn = "load_all" /\ cmd.res.ok =>
        \A k \in OptionKeys :
            cmd.res.value.keys[k] =
                IF SettersOf(cmd.before, "keys", k) = {} THEN None
                ELSE cmd.before.conf[LastSetter(cmd.before, "keys", k)].keys[k]

----------------------------------------------------------------------------
\* What a command found on disk and what it left there

\* the file init manages under item opt
ManagedFile(d, opt) == IF opt = "config" THEN d.conf[1] ELSE d.state

\* the run of SeaplaneInit the user asked for, when the command got that far
UserInitRan == cmd.fn = "init" /\ cmd.inits # <<>> /\ ~cmd.inits[Len(cmd.inits)].ctx.internal_run
UserInit == cmd.inits[Len(cmd.inits)]

\* C22: when init is run by the user and one of its two managed files already
\* exists, the file is overwritten only if --force is set or --overwrite
\* contains the file's item or "all"; otherwise it is left untouched.
C22_OverwriteOnlySelected ==
    UserInitRan =>
        \A opt \in {"config", "formations"} :
            (/\ ManagedFile(UserInit.before, opt) # Missing
             /\ ~cmd.args.force
             /\ opt \notin cmd.args.overwrite
             /\ "all" \notin cmd.args.overwrite)
                => ManagedFile(UserInit.disk, opt) = ManagedFile(UserInit.before, opt)

\* the API key the config file of directory dir stores
StoredKey(d, dir) == IF d.conf[dir].kind = "toml" THEN d.conf[dir].keys["api_key"] ELSE None

\* login loaded a configuration that holds an API key
LoadedKey == cmd.fn = "login" /\ cmd.loaded.ok /\ IsSome(cmd.loaded.value.keys["api_key"])

\* C25: if the loaded configuration already holds an API key and --force is not
\* set, login returns the existing-value error without reading standard input
\* and without persisting, and the stored configuration is unchanged; a stored
\* key is replaced only when --force is set.
C25_NoSilentReplace ==
    cmd.fn = "login" =>
        /\ LoadedKey /\ ~cmd.args.force =>
               /\ cmd.res = Err("ExistingValue", 0)
               /\ ~cmd.read_stdin
               /\ ~cmd.persisted
               /\ disk = cmd.before
        /\ \A dir \in ConfDirs :
               IsSome(StoredKey(cmd.before, dir))
                   /\ StoredKey(disk, dir) # StoredKey(cmd.before, dir)
                   => cmd.args.force

\* a login without --force found a key, although a new one was typed
C25_Witness ==
    /\ LoadedKey
    /\ ~cmd.args.force
    /\ cmd.stdin = Line(TypedKey)
    /\ cmd.res = Err("ExistingValue", 0)

----------------------------------------------------------------------------
\* The local formations a land was asked about

\* the formations named exactly as asked, and those whose name starts with it
ExactlyNamed == {i \in DOMAIN cmd.db_before : cmd.db_before[i].name = Unwrap(cmd.args.name_id)}
NamedFrom ==
    {i \in DOMAIN cmd.db_before :
        /\ Len(cmd.db_before[i].name) >= Len(Unwrap(cmd.args.name_id))
        /\ \A j \in 1..Len(Unwrap(cmd.args.name_id)) :
               cmd.db_before[i].name[j] = Unwrap(cmd.args.name_id)[j]}

\* no stop request was sent, no local formation changed, nothing was persisted
NothingLanded ==
    /\ cmd.stops = <<>>
    /\ cmd.persists = 0
    /\ db = cmd.db_before
    /\ disk = cmd.before

\* C24: without --all a name that matches more than one local formation gives
\* an ambiguity error, a name that matches none (with or without --all) gives
\* a no-matching-item error; in both cases no stop request is sent and no local
\* formation state is changed or persisted.
C24_RefusesAmbiguousOrMissing ==
    cmd.fn = "land" =>
        /\ ~cmd.args.all /\ Cardinality(ExactlyNamed) > 1 =>
               cmd.res = Err("AmbiguousItem", 0) /\ NothingLanded
        /\ (~cmd.args.all /\ ExactlyNamed = {}) \/ (cmd.args.all /\ NamedFrom = {}) =>
               cmd.res = Err("NoMatchingItem", 0) /\ NothingLanded

\* two formations in air share the name asked for, and the remote service would stop them
C24_Witness ==
    /\ cmd.fn = "land"
    /\ ~cmd.args.all
    /\ IsSome(cmd.args.api_key)
    /\ Cardinality(ExactlyNamed) = 2
    /\ \A i \in ExactlyNamed : cmd.db_before[i].in_air # {}
    /\ \A i \in DOMAIN cmd.script : cmd.script[i] = "ok"
    /\ cmd.before.writable
    /\ cmd.res = Err("AmbiguousItem", 0)

----------------------------------------------------------------------------
\* the last call was a get_all_pages whose first attempt ended in a 401 and
\* that made a second attempt
PagesRetried ==
    /\ last.fn = "get_all_pages"
    /\ Len(last.env.runs) = 2
    /\ EndStatus(1) = 401
    /\ Len(last.sent) > Len(last.env.runs[1])

----------------------------------------------------------------------------
\* the first attempt of the last call ended in 401 and the identity endpoint
\* refused the re-authentication that followed
FailedReauth ==
    /\ last.fn \in Ops
    /\ Len(last.env.runs) >= 1
    /\ EndStatus(1) = 401
    /\ last.reauths >= 1
    /\ FirstReauthAnswer = "error"

\* C29, as claimed: when the first attempt returns 401 and the identity
\* endpoint then fails, the operation returns the identity error, makes no
\* second attempt, and the stored token and the cached Bound Request are the
\* same as before the operation.
C29_Original ==
    [][FailedReauth'
          => /\ last'.res = Err("Identity", 0)
             /\ last'.attempts = 1
             /\ self'.token = self.token
             /\ self'.inner = self.inner]_vars

\* C29, amended: when the first attempt returns 401 and the identity endpoint
\* then fails, the operation returns the identity error and makes no second
\* attempt: its resource requests are those of the first attempt.  On a facade
\* that held a cached Bound Request the stored token and that Bound Request
\* are the same as before the operation; on a facade that held none, they are
\* the token and the Bound Request the first attempt was made with.
C29_FailedReauth ==
    [][FailedReauth'
          => /\ last'.res = Err("Identity", 0)
             /\ last'.attempts = 1
             /\ last'.reauths = 1
             /\ Len(last'.env.runs) = 1
             /\ Len(last'.sent) = Len(last'.env.runs[1])
             /\ IsSome(self'.inner) /\ IsSome(self'.token)
             /\ \A i \in 1..Len(last'.sent) :
                    /\ last'.sent[i].target = Unwrap(self'.inner).target
                    /\ last'.sent[i].bearer = Unwrap(self'.inner).token
             /\ last'.built
                   => /\ self'.token = self.token
                      /\ self'.inner = self.inner
                      /\ last'.builds = <<>>
             /\ ~last'.built
                   => /\ IsNone(self.inner)
                      /\ Len(last'.builds) = 1
                      /\ IsSome(self.token) => self'.token = self.token]_vars

\* a facade with a cached Bound Request got a 401 and then no token
C29_Witness ==
    /\ FailedReauth
    /\ last.built
    /\ last.fn = "get_restriction"
    /\ last.res = Err("Identity", 0)
    /\ Len(last.sent) = 1
    /\ IsSome(self.inner) /\ IsSome(self.token)

----------------------------------------------------------------------------
\* C30: a setter that returns an error leaves the targeting parameters and the
\* cached Bound Request as they were before the call, so the operation that
\* follows never runs against a Bound Request whose target differs from the
\* stored targeting parameters.
C30_FailedSetterChangesNothing ==
    [][/\ (last'.fn \in Setters /\ ~last'.res.ok)
           => /\ Targeting(self') = Targeting(self)
              /\ self'.inner = self.inner
       /\ (last.fn \in Setters /\ ~last.res.ok /\ last'.fn \in Ops /\ last'.built)
           => InnerMatchesParameters]_vars

\* an operation ran against a cached Bound Request whose target is not the
\* one the stored parameters name, after a setter had failed
StaleTargetUsed ==
    /\ last.fn \in Ops
    /\ last.built
    /\ Len(last.sent) >= 1
    /\ ~InnerMatchesParameters

----------------------------------------------------------------------------
\* the shape the parameters api and directory of a build select
ShapeOf(b) ==
    IF IsSome(b.api) /\ IsSome(b.directory) THEN "single"
    ELSE IF IsSome(b.api) THEN "api_range"
    ELSE "all_range"

\* the Bound Requests the last call built, with the parameters they were built from
BuiltOfLast == {last.builds[i] : i \in {j \in 1..Len(last.builds) : last.builds[j].ok}}

\* C31: the built request carries the from_dir cursor if and only if it is set
\* and the shape is api-range or all-range, and the from_api cursor if and
\* only if it is set and the shape is all-range; in the single-restriction
\* shape neither cursor has an effect; the shape is selected by api and
\* directory alone, so setting a cursor never changes it.
C31_CursorPerShape ==
    \A b \in BuiltOfLast :
        /\ Unwrap(b.req).target.shape = ShapeOf(b)
        /\ Unwrap(b.req).target.from_dir =
               IF ShapeOf(b) \in {"api_range", "all_range"} THEN b.from_dir ELSE None
        /\ Unwrap(b.req).target.from_api =
               IF ShapeOf(b) = "all_range" THEN b.from_api ELSE None
        /\ ShapeOf(b) = "single"
               => Unwrap(b.req).target =
                      [shape |-> "single", api |-> b.api, directory |-> b.directory,
                       from_api |-> None, from_dir |-> None]

\* with both cursors set, an api-range request was built: it carries from_dir only
C31_Witness ==
    /\ last.fn = "set_from_dir"
    /\ \E b \in BuiltOfLast :
           /\ IsSome(b.from_api) /\ IsSome(b.from_dir)
           /\ ShapeOf(b) = "api_range"
           /\ Unwrap(b.req).target.from_dir = b.from_dir
           /\ Unwrap(b.req).target.from_api = None

----------------------------------------------------------------------------
\* the indices the land matched, in the order the loop takes them
Matched ==
    IF cmd.args.all
    THEN formation_indices_of_left_matches(cmd.db_before, Unwrap(cmd.args.name_id))
    ELSE formation_indices_of_matches(cmd.db_before, Unwrap(cmd.args.name_id))

\* the positions of Matched a stop request was sent for
Stopped == 1..Len(cmd.stops)

\* formation i as it is after a landing of cmd.db_before[i]
LandedFrom(f, i) ==
    /\ f.name = cmd.db_before[i].name
    /\ f.in_air = {}
    /\ f.grounded = cmd.db_before[i].grounded \cup cmd.db_before[i].in_air

\* C32: land changes local state only after the remote stop succeeded: a
\* formation's sets change only if its stop request was sent and succeeded;
\* after a successful stop in_air is empty and grounded is the old grounded
\* united with the old in_air, and the state is persisted when the disk takes
\* the write; after a failed stop the formation's in_air and grounded are
\* unchanged, in memory and in the state file, and nothing is persisted for it.
C32_StopBeforeLocalChange ==
    cmd.fn = "land" =>
        /\ Len(cmd.stops) <= Len(Matched)
        /\ \A p \in Stopped : cmd.stops[p] = cmd.db_before[Matched[p]].name
        /\ \A i \in DOMAIN db :
               db[i] # cmd.db_before[i] \/ disk.state.formations[i] # cmd.db_before[i]
                   => \E p \in Stopped : Matched[p] = i /\ cmd.script[p] # "stop_fails"
        /\ \A p \in Stopped :
               /\ cmd.script[p] # "stop_fails" => LandedFrom(db[Matched[p]], Matched[p])
               /\ cmd.script[p] = "ok" /\ cmd.before.writable
                      => LandedFrom(disk.state.formations[Matched[p]], Matched[p])
               /\ cmd.script[p] = "stop_fails"
                      => /\ db[Matched[p]] = cmd.db_before[Matched[p]]
                         /\ disk.state.formations[Matched[p]] = cmd.db_before[Matched[p]]
                         /\ cmd.res = Err("Stop", 0)
        /\ cmd.persists =
               Cardinality({p \in Stopped : cmd.script[p] = "ok" /\ cmd.before.writable})

\* of two formations in air the first was stopped, landed and persisted, the
\* stop of the second failed and left it in air
C32_Witness ==
    /\ cmd.fn = "land"
    /\ Len(cmd.stops) = 2
    /\ cmd.script[1] = "ok" /\ cmd.script[2] = "stop_fails"
    /\ cmd.before.writable
    /\ cmd.db_before[Matched[1]].in_air = {1} /\ cmd.db_before[Matched[1]].grounded = {2}
    /\ db[Matched[1]].in_air = {} /\ db[Matched[1]].grounded = {1, 2}
    /\ disk.state.formations[Matched[1]].grounded = {1, 2}
    /\ db[Matched[2]].in_air = {1}
    /\ disk.state.formations[Matched[2]].in_air = {1}
    /\ cmd.persists = 1

\* position p of Matched fails: its stop request or the write of the state file
FailsAt(p) == cmd.script[p] # "ok" \/ ~cmd.before.writable

\* the positions of Matched at which the run has to end
FirstFailure == {k \in 1..Len(Matched) : FailsAt(k) /\ \A p \in 1..(k - 1) : ~FailsAt(p)}

\* C33: land over several formations is not atomic: with --all and several
\* matching formations taken in index order, a failure of the stop request or
\* of the persist at the k-th formation ends run with that error, every
\* formation before the k-th is landed locally and persisted, every formation
\* after the k-th is untouched and no stop request is sent for it.
C33_NotAtomic ==
    cmd.fn = "land" /\ cmd.args.all /\ Len(Matched) > 1 /\ IsSome(cmd.args.api_key) =>
        /\ \A p \in 1..(Len(Matched) - 1) : Matched[p] < Matched[p + 1]
        /\ \A k \in FirstFailure :
               /\ cmd.res = IF cmd.script[k] = "stop_fails" THEN Err("Stop", 0)
                                                           ELSE Err("Io", 0)
               /\ Len(cmd.stops) = k
               /\ \A p \in 1..(k - 1) :
                      /\ LandedFrom(db[Matched[p]], Matched[p])
                      /\ LandedFrom(disk.state.formations[Matched[p]], Matched[p])
               /\ \A p \in (k + 1)..Len(Matched) :
                      /\ db[Matched[p]] = cmd.db_before[Matched[p]]
                      /\ disk.state.formations[Matched[p]] = cmd.db_before[Matched[p]]
        /\ FirstFailure = {} => cmd.res = Ok(<<>>) /\ Len(cmd.stops) = Len(Matched)

\* with --all two formations in air match; the stop of the first succeeds and
\* it is landed and persisted, the write for the second fails
C33_Witness ==
    /\ cmd.fn = "land"
    /\ cmd.args.all
    /\ Len(Matched) = 2
    /\ FirstFailure = {2}
    /\ cmd.script[2] = "persist_fails"
    /\ cmd.db_before[1].in_air = {1} /\ cmd.db_before[2].in_air = {1}
    /\ cmd.res = Err("Io", 0)
    /\ db[1].in_air = {} /\ disk.state.formations[1].in_air = {}
    /\ disk.state.formations[2].in_air = {1}

\* with --all two formations in air match and the stop of the first fails:
\* the second is left in air and no stop request is sent for it
C33_WitnessFirst ==
    /\ cmd.fn = "land"
    /\ cmd.args.all
    /\ Len(Matched) = 2
    /\ FirstFailure = {1}
    /\ cmd.script[1] = "stop_fails"
    /\ cmd.db_before[2].in_air = {1}
    /\ db[2].in_air = {1}
    /\ Len(cmd.stops) = 1

----------------------------------------------------------------------------
\* load_all found no configuration file in any directory and ran init internally
InternalInitRan ==
    /\ cmd.fn = "load_all"
    /\ \A dir \in ConfDirs : cmd.before.conf[dir] = Missing
    /\ cmd.inits # <<>>

\* C34: when load_all finds no configuration file and runs init internally
\* (internal_run = true), a state file that already exists on disk is left
\* unchanged.
C34_InternalInitKeepsState ==
    InternalInitRan /\ cmd.before.state # Missing => disk.state = cmd.before.state

\* the part of C34 that holds: a state file is replaced by the internal init
\* only when the disk takes the write, and then by the empty state
InternalInitWritesEmptyState ==
    InternalInitRan =>
        disk.state = IF cmd.before.writable THEN empty_bytes("formations", feat)
                                            ELSE cmd.before.state

----------------------------------------------------------------------------
\* the configuration files a login wrote
LoginWrote == {dir \in ConfDirs : disk.conf[dir] # cmd.before.conf[dir]}

\* the key a successful login left in the file it persisted to
PersistedKeys == {StoredKey(disk, dir) : dir \in {d \in ConfDirs : disk.conf[d].kind = "toml"}}

\* C35: whenever login returns success, the API key persisted to the
\* configuration equals the first line read from standard input; a previously
\* stored key is never replaced by an absent key or by a value that did not
\* come from that line.
C35_StoresEnteredLine ==
    cmd.fn = "login" /\ cmd.res.ok =>
        /\ cmd.stdin.kind = "line"
        /\ Some(cmd.stdin.line) \in PersistedKeys
        /\ \A dir \in ConfDirs :
               IsSome(StoredKey(cmd.before, dir))
                   /\ StoredKey(disk, dir) # StoredKey(cmd.before, dir)
                   => StoredKey(disk, dir) = Some(cmd.stdin.line)

\* the part of C35 that holds: when standard input gave a line, a successful
\* login persisted that line as the key and replaced a stored key by nothing else
LineEnteredIsStored ==
    cmd.fn = "login" /\ cmd.res.ok /\ cmd.stdin.kind = "line" =>
        /\ cmd.persisted
        /\ Some(cmd.stdin.line) \in PersistedKeys
        /\ \A dir \in ConfDirs :
               StoredKey(disk, dir) # StoredKey(cmd.before, dir)
                   => StoredKey(disk, dir) = Some(cmd.stdin.line)

\* a login --force at the end of standard input succeeded and the stored key is gone
KeyLostAtEof ==
    /\ cmd.fn = "login"
    /\ cmd.res.ok
    /\ cmd.stdin = Eof
    /\ cmd.args.force
    /\ \E dir \in ConfDirs :
           IsSome(StoredKey(cmd.before, dir)) /\ StoredKey(disk, dir) = None
====
